---- MODULE Spec2Model ----
(***************************************************************************)
(* Model of the CSV ingestion / reconciliation / cluster materialisation   *)
(* pipeline of API-WhareHouse:                                             *)
(*   app/services/csv_service.py      CsvService.process_csv_stream        *)
(*   app/services/consultar_imei.py   ConsultaImeiService                  *)
(*   app/routes/imei.py               processar_csv                        *)
(*   app/services/cluster_service.py  ClusterService.create_cluster        *)
(*   app/models/cluster.py            ClusterDB, create_cluster_table      *)
(*                                                                         *)
(* Python values are tagged records [t, s, d]: t is the Python type        *)
(* ("none", "str", "dict"), s the text of a str, d the mapping of a dict   *)
(* (a function from keys to values).  A JSON list is a dict keyed by the   *)
(* decimal index ("0", "1", ...).                                          *)
(***************************************************************************)
EXTENDS Integers, Sequences, FiniteSets, TLC

-----------------------------------------------------------------------------
(* Bounds of the model *)

\* number of data lines of an uploaded CSV
MaxRows == 2
\* number of items of a list handed directly to create_cluster
MaxItems == 2
\* last instant of the clock
MaxClock == 2

-----------------------------------------------------------------------------
(* Python values *)

EmptyDict == [k \in {} |-> TRUE]

PyNone == [t |-> "none", s |-> "", d |-> EmptyDict]

\* an int
PyInt(n) == [t |-> "int", s |-> "", d |-> EmptyDict, n |-> n]

\* a list
PyList(l) == [t |-> "list", s |-> "", d |-> EmptyDict, l |-> l]

PyStr(x) == [t |-> "str", s |-> x, d |-> EmptyDict]

PyDict(f) == [t |-> "dict", s |-> "", d |-> f]

\* bool(v) of Python: None, '' and {} are falsy
Truthy(v) ==
    CASE v.t = "none" -> FALSE
      [] v.t = "str"  -> v.s # ""
      [] v.t = "dict" -> DOMAIN v.d # {}

\* a or b
PyOr(a, b) == IF Truthy(a) THEN a ELSE b

\* d.get(k): None when the key is absent
Get(f, k) == IF k \in DOMAIN f THEN f[k] ELSE PyNone

\* d.get(k, default)
GetDefault(f, k, default) == IF k \in DOMAIN f THEN f[k] ELSE default

\* {**a, **b}: the keys of b override those of a
Merge(a, b) ==
    [k \in DOMAIN a \cup DOMAIN b |-> IF k \in DOMAIN b THEN b[k] ELSE a[k]]

\* {**f, k: v}
With(f, k, v) == [x \in DOMAIN f \cup {k} |-> IF x = k THEN v ELSE f[x]]

\* str(v) for the values the model uses
Str(v) ==
    CASE v.t = "str"  -> v.s
      [] v.t = "none" -> "None"
      [] v.t = "dict" -> "{}"

RECURSIVE LStrip(_)
LStrip(x) ==
    IF Len(x) > 0 /\ SubSeq(x, 1, 1) = " "
    THEN LStrip(SubSeq(x, 2, Len(x)))
    ELSE x

RECURSIVE RStrip(_)
RStrip(x) ==
    IF Len(x) > 0 /\ SubSeq(x, Len(x), Len(x)) = " "
    THEN RStrip(SubSeq(x, 1, Len(x) - 1))
    ELSE x

\* str.strip()
Strip(x) == RStrip(LStrip(x))

LowerLetters == <<"a","b","c","d","e","f","g","h","i","j","k","l","m",
                  "n","o","p","q","r","s","t","u","v","w","x","y","z",
                  "ç","ã">>

UpperLetters == <<"A","B","C","D","E","F","G","H","I","J","K","L","M",
                  "N","O","P","Q","R","S","T","U","V","W","X","Y","Z",
                  "Ç","Ã">>

\* the upper case of one character; that of "ß" is two characters long
UpperChar(c) ==
    IF c = "ß" THEN "SS"
    ELSE IF \E i \in 1..Len(LowerLetters) : LowerLetters[i] = c
    THEN UpperLetters[CHOOSE i \in 1..Len(LowerLetters) : LowerLetters[i] = c]
    ELSE c

LowerChar(c) ==
    IF \E i \in 1..Len(LowerLetters) : UpperLetters[i] = c
    THEN LowerLetters[CHOOSE i \in 1..Len(LowerLetters) : UpperLetters[i] = c]
    ELSE c

RECURSIVE Upper(_)
\* str.upper()
Upper(x) ==
    IF Len(x) = 0 THEN ""
    ELSE UpperChar(SubSeq(x, 1, 1)) \o Upper(SubSeq(x, 2, Len(x)))

RECURSIVE Lower(_)
\* str.lower()
Lower(x) ==
    IF Len(x) = 0 THEN ""
    ELSE LowerChar(SubSeq(x, 1, 1)) \o Lower(SubSeq(x, 2, Len(x)))

-----------------------------------------------------------------------------
(* csv.DictReader and CsvService.process_csv_stream                        *)
(* A CSV text is the sequence of its lines as csv.reader yields them: each *)
(* line a sequence of field strings, an empty line the empty sequence.     *)

\* the keys of the dict that DictReader builds for a line
RowKeys(fieldnames) == {fieldnames[i] : i \in 1..Len(fieldnames)}

FirstIndex(fieldnames, k) ==
    CHOOSE i \in 1..Len(fieldnames) :
        /\ fieldnames[i] = k
        /\ \A j \in 1..Len(fieldnames) : fieldnames[j] = k => i <= j

LastIndex(fieldnames, k) ==
    CHOOSE i \in 1..Len(fieldnames) :
        /\ fieldnames[i] = k
        /\ \A j \in 1..Len(fieldnames) : fieldnames[j] = k => j <= i

\* dict(zip(fieldnames, row)), short lines padded with restval (None);
\* a repeated header keeps the value of its last column
DictRow(fieldnames, row) ==
    [k \in RowKeys(fieldnames) |->
        IF LastIndex(fieldnames, k) <= Len(row)
        THEN PyStr(row[LastIndex(fieldnames, k)])
        ELSE PyNone]

\* a line longer than the header puts the surplus under the key None
HasRestKey(fieldnames, row) == Len(row) > Len(fieldnames)

\* any(row.values())
AnyValue(fieldnames, row) ==
    \/ HasRestKey(fieldnames, row)
    \/ \E k \in RowKeys(fieldnames) : Truthy(DictRow(fieldnames, row)[k])

column_mapping ==
    [k \in {"IMEI", "MODELO", "STATUS", "OBS", "OBSERVAÇÃO", "OBSERVACAO",
            "FABRICANTE", "TIPO ATIVO", "EMPRESA", "NUMERO CHAMADO",
            "CHAMADO", "LOCALIZAÇÃO", "LOCAL"} |->
        CASE k = "IMEI" -> "imei"
          [] k = "MODELO" -> "modelo"
          [] k = "STATUS" -> "status"
          [] k \in {"OBS", "OBSERVAÇÃO", "OBSERVACAO"} -> "observacao"
          [] k = "FABRICANTE" -> "fabricante"
          [] k = "TIPO ATIVO" -> "tipo_ativo"
          [] k = "EMPRESA" -> "empresa"
          [] k \in {"NUMERO CHAMADO", "CHAMADO"} -> "numero_chamado"
          [] k \in {"LOCALIZAÇÃO", "LOCAL"} -> "localizacao"]

\* column_mapping.get(clean_key, clean_key.lower()) of k.strip().upper()
MappedKey(k) ==
    LET clean_key == Upper(Strip(k))
    IN  IF clean_key \in DOMAIN column_mapping
        THEN column_mapping[clean_key]
        ELSE Lower(clean_key)

\* the cleaned_row of a line: mapped key -> stripped text; when several
\* headers map to one key the last one in the dict's order wins
CleanedRow(fieldnames, row) ==
    LET keys == RowKeys(fieldnames)
        src(m) == CHOOSE k \in keys :
                    /\ MappedKey(k) = m
                    /\ \A k2 \in keys : MappedKey(k2) = m =>
                          FirstIndex(fieldnames, k2) <= FirstIndex(fieldnames, k)
        val(k) == LET v == DictRow(fieldnames, row)[k]
                  IN  IF v.t = "none" THEN "" ELSE Strip(Str(v))
    IN  [m \in {MappedKey(k) : k \in keys} |-> PyStr(val(src(m)))]

DefaultStatus == "DESCONHECIDO"

\* GrouperRecord with another default than the one of line 212
GrouperRecord_OtherDefault(cleaned_row) ==
    LET status == Strip(Str(PyOr(Get(cleaned_row, "status"), PyStr(""))))
    IN  [k \in {"imei", "modelo", "status", "observacao", "fabricante",
                "tipo_ativo", "empresa", "numero_chamado", "localizacao",
                "dados_brutos"} |->
            CASE k = "imei" -> Get(cleaned_row, "imei")
              [] k = "status" ->
                    PyStr(IF status = "" THEN "UNKNOWN" ELSE status)
              [] k = "dados_brutos" -> PyDict(cleaned_row)
              [] OTHER -> Get(cleaned_row, k)]

\* the imei_data dict built for a retained line
GrouperRecord(cleaned_row) ==
    LET status == Strip(Str(PyOr(Get(cleaned_row, "status"), PyStr(""))))
    IN  [k \in {"imei", "modelo", "status", "observacao", "fabricante",
                "tipo_ativo", "empresa", "numero_chamado", "localizacao",
                "dados_brutos"} |->
            CASE k = "imei" -> Get(cleaned_row, "imei")
              [] k = "status" ->
                    PyStr(IF status = "" THEN DefaultStatus ELSE status)
              [] k = "dados_brutos" -> PyDict(cleaned_row)
              [] OTHER -> Get(cleaned_row, k)]

\* imei_groups as an ordered dict: a sequence of [imei, registros] in the
\* order in which the keys were first inserted
GroupIndex(groups, imei) ==
    IF \E i \in 1..Len(groups) : groups[i].imei = imei
    THEN CHOOSE i \in 1..Len(groups) : groups[i].imei = imei
    ELSE 0

\* AddToGroup replacing the records of a known key instead of appending
AddToGroup_Replaces(groups, imei, imei_data) ==
    IF GroupIndex(groups, imei) = 0
    THEN Append(groups, [imei |-> imei, registros |-> <<imei_data>>])
    ELSE [groups EXCEPT ![GroupIndex(groups, imei)].registros = <<imei_data>>]

\* lines 233-236
AddToGroup(groups, imei, imei_data) ==
    IF GroupIndex(groups, imei) = 0
    THEN Append(groups, [imei |-> imei, registros |-> <<imei_data>>])
    ELSE [groups EXCEPT ![GroupIndex(groups, imei)].registros =
                                Append(@, imei_data)]

\* GroupStep without the test of line 199, which skips a row without IMEI
GroupStep_KeepsEmptyImei(fieldnames, row, groups) ==
    LET cleaned_row == CleanedRow(fieldnames, row)
        imei == Str(GetDefault(cleaned_row, "imei", PyStr("")))
    IN  IF row = <<>> \/ ~AnyValue(fieldnames, row)
        THEN groups
        ELSE AddToGroup(groups, imei, GrouperRecord(cleaned_row))

\* lines 178-239: one turn of the loop over the data lines; csv.DictReader
\* passes over a line without fields
GroupStep(fieldnames, row, groups) ==
    LET cleaned_row == CleanedRow(fieldnames, row)
        imei == Str(GetDefault(cleaned_row, "imei", PyStr("")))
    IN  IF row = <<>> \/ ~AnyValue(fieldnames, row) \/ imei = ""
        THEN groups
        ELSE AddToGroup(groups, imei, GrouperRecord(cleaned_row))

RECURSIVE GroupRows(_, _, _, _)
\* the loop over the data lines, from line n on
GroupRows(fieldnames, lines, n, groups) ==
    IF n > Len(lines) THEN groups
    ELSE GroupRows(fieldnames, lines, n + 1,
                   GroupStep(fieldnames, lines[n], groups))

NormalizedHeaders(header) ==
    [i \in 1..Len(header) |-> Upper(Strip(header[i]))]

\* HeaderError with the tests of lines 141-155 put after the loop: the
\* header is not looked at before the rows are read
HeaderError_NoCheck(lines) == ""

\* lines 138-155: the error the header raises, "" when it has an IMEI column
HeaderError(lines) ==
    IF Len(lines) = 0 THEN "no_headers"
    ELSE LET fieldnames == NormalizedHeaders(lines[1])
         IN  IF Len(fieldnames) = 0 THEN "empty"
             ELSE IF ~\E i \in 1..Len(fieldnames) : fieldnames[i] = "IMEI"
             THEN "missing_imei"
             ELSE ""

\* CsvService.process_csv_stream: [err, groups]; err = "" on success
process_csv_stream(lines) ==
    IF HeaderError(lines) # ""
    THEN [err |-> HeaderError(lines), groups |-> <<>>]
    ELSE LET groups == GroupRows(lines[1], lines, 2, <<>>)
         IN  IF Len(groups) = 0
             THEN [err |-> "no_valid_imei", groups |-> <<>>]
             ELSE [err |-> "", groups |-> groups]

-----------------------------------------------------------------------------
(* ConsultaImeiService: the external inventory service is the environment. *)
(* One "world" fixes what the service answers during one consultar_imei    *)
(* call: how the login goes (used only when the client is not              *)
(* authenticated yet), how the inventory request goes, and the JSON body.  *)

AuthOutcomes ==
    {"ok", "page_status", "no_token", "post_status", "no_cookie", "exception"}

QueryOutcomes == {"200", "500", "exception", "bad_json"}

\* ConsultaImeiService.autenticar: TRUE when it returns, FALSE when it
\* raises HTTPException(401); the new value of _autenticado is the same
autenticar(autenticado, auth) == autenticado \/ auth = "ok"

\* item.get(a) or item.get(b) or ...
RECURSIVE FirstOf(_, _)
FirstOf(item, names) ==
    IF Len(names) = 1 THEN Get(item, names[1])
    ELSE PyOr(Get(item, names[1]), FirstOf(item, Tail(names)))

Erro(imei, msg) ==
    [k \in {"imei", "erro"} |-> IF k = "imei" THEN PyStr(imei) ELSE PyStr(msg)]

\* the dados_formatados dict built from the first item of the answer
dados_formatados(imei, item, data) ==
    [k \in {"imei", "imei2", "serial", "modelo", "status", "fabricante",
            "tipo_ativo", "empresa", "numero_chamado", "data_inicio",
            "localizacao", "detalhes", "dados_brutos", "resposta_completa"} |->
        CASE k = "imei" -> PyStr(imei)
          [] k = "imei2" ->
                FirstOf(item, <<"IMEI2", "Imei2", "imei2", "Imei 2", "IMEI 2">>)
          [] k = "serial" ->
                FirstOf(item, <<"Serial", "NumeroSerie", "NumeroSerial",
                                "numero_serie", "serial", "NroSerie", "NroSerial">>)
          [] k = "modelo" -> FirstOf(item, <<"Modelo", "modelo">>)
          [] k = "status" -> FirstOf(item, <<"Status", "status">>)
          [] k = "fabricante" -> FirstOf(item, <<"Fabrica", "fabrica", "marca">>)
          [] k = "tipo_ativo" -> FirstOf(item, <<"TipoAtivo", "tipoativo">>)
          [] k = "empresa" -> FirstOf(item, <<"Empresa", "empresa">>)
          [] k = "numero_chamado" ->
                FirstOf(item, <<"NumeroChamado", "numero_chamado">>)
          [] k = "data_inicio" -> FirstOf(item, <<"DataInicio", "data_inicio">>)
          [] k = "localizacao" ->
                FirstOf(item, <<"Organograma", "organograma", "vinculadoha">>)
          [] k = "detalhes" -> PyDict(item)
          [] k = "dados_brutos" -> PyDict(item)
          [] k = "resposta_completa" -> data]

\* ConsultaImeiService.consultar_imei in world w, the client's
\* _autenticado flag being autenticado: the dict it returns
consultar_imei(imei, autenticado, w) ==
    IF ~autenticar(autenticado, w.auth)
    THEN Erro(imei, "Erro ao processar consulta: 401")
    ELSE IF w.query = "exception" \/ w.query = "bad_json"
    THEN Erro(imei, "Erro ao processar consulta: " \o w.query)
    ELSE IF w.query # "200"
    THEN Erro(imei, "Erro na consulta (HTTP " \o w.query \o ")")
    ELSE LET data == w.body
         IN  IF /\ data.t = "dict"
                /\ "data" \in DOMAIN data.d
                /\ DOMAIN data.d["data"].d # {}
             THEN LET item == data.d["data"].d["0"]
                  IN  IF item.t # "dict"
                      THEN Erro(imei, "Erro ao processar consulta: AttributeError")
                      ELSE dados_formatados(imei, item.d, data)
             ELSE Erro(imei, "Nenhum dado encontrado para este IMEI")

\* the value of _autenticado after consultar_imei
autenticado_after(autenticado, w) == autenticar(autenticado, w.auth)

-----------------------------------------------------------------------------
(* processar_csv: the reconciliation of one group *)

\* dados_csv_of taking the last record of the group instead of registros[0]
dados_csv_of_LastRow(imei, registros) ==
    IF Len(registros) > 0 THEN registros[Len(registros)]
    ELSE [k \in {"imei"} |-> PyStr(imei)]

\* lines 355-357
dados_csv_of(imei, registros) ==
    IF Len(registros) > 0 THEN registros[1]
    ELSE [k \in {"imei"} |-> PyStr(imei)]

\* reconcile with the operands of the merge of lines 369-372 swapped
reconcile_ExternalOverrides(dados_csv, resposta_api) ==
    IF "erro" \in DOMAIN resposta_api
    THEN With(dados_csv, "erro_consulta", Get(resposta_api, "erro"))
    ELSE LET merged == Merge(dados_csv, resposta_api)
         IN  IF Truthy(Get(dados_csv, "status"))
             THEN With(merged, "status", dados_csv["status"])
             ELSE merged

\* reconcile without the erro_consulta entry of line 366
reconcile_NoAnnotation(dados_csv, resposta_api) ==
    IF "erro" \in DOMAIN resposta_api
    THEN dados_csv
    ELSE LET merged == Merge(resposta_api, dados_csv)
             m1 == With(merged, "dados_brutos", resposta_api["dados_brutos"])
             m2 == With(m1, "resposta_completa",
                        resposta_api["resposta_completa"])
         IN  IF Truthy(Get(dados_csv, "status"))
             THEN With(m2, "status", dados_csv["status"])
             ELSE m2

\* reconcile without lines 375-378, which put the lookup's payloads back
reconcile_NoRawRestore(dados_csv, resposta_api) ==
    IF "erro" \in DOMAIN resposta_api
    THEN With(dados_csv, "erro_consulta", Get(resposta_api, "erro"))
    ELSE LET merged == Merge(resposta_api, dados_csv)
         IN  IF Truthy(Get(dados_csv, "status"))
             THEN With(merged, "status", dados_csv["status"])
             ELSE merged

\* lines 361-382: dados_finais from the CSV row and the lookup's answer
reconcile(dados_csv, resposta_api) ==
    IF "erro" \in DOMAIN resposta_api
    THEN With(dados_csv, "erro_consulta", Get(resposta_api, "erro"))
    ELSE LET merged == Merge(resposta_api, dados_csv)
             m1 == IF "dados_brutos" \in DOMAIN resposta_api
                   THEN With(merged, "dados_brutos", resposta_api["dados_brutos"])
                   ELSE merged
             m2 == IF "resposta_completa" \in DOMAIN resposta_api
                   THEN With(m1, "resposta_completa",
                             resposta_api["resposta_completa"])
                   ELSE m1
         IN  IF Truthy(Get(dados_csv, "status"))
             THEN With(m2, "status", dados_csv["status"])
             ELSE m2

-----------------------------------------------------------------------------
(* ClusterService.create_cluster: preparation of one item (lines 53-170) *)

\* the columns of a prepared record but its two timestamps, which Stamped
\* adds; the row id the table generates is left out
RecordKeys ==
    {"imei", "modelo", "status", "observacao", "fabricante", "tipo_ativo",
     "empresa", "numero_chamado", "localizacao", "dados_brutos"}

\* line 64
HasLocalFields(f) ==
    \E key \in {"modelo", "status", "observacao", "fabricante"} : key \in DOMAIN f

\* imei_item.get('imei', '').strip() raises unless the value is a str
ImeiRaises(imei_item) ==
    imei_item.t = "dict" /\ GetDefault(imei_item.d, "imei", PyStr("")).t # "str"

\* the stripped IMEI of an item (lines 58, 148)
ItemImei(imei_item) ==
    IF imei_item.t = "dict"
    THEN Strip(Str(GetDefault(imei_item.d, "imei", PyStr(""))))
    ELSE Strip(Str(imei_item))

\* NeedsLookup looking every item up, as line 152 does for a bare id
NeedsLookup_EveryItem(imei_item) ==
    /\ ~ImeiRaises(imei_item)
    /\ ItemImei(imei_item) # ""

\* does the preparation of this item call the lookup service (lines 124, 152)
NeedsLookup(imei_item) ==
    /\ ~ImeiRaises(imei_item)
    /\ ItemImei(imei_item) # ""
    /\ (imei_item.t = "dict" => ~HasLocalFields(imei_item.d))

\* lines 67-101: the status of a dict that carries local fields
LocalStatus(f) ==
    LET hasRaw == "dados_brutos" \in DOMAIN f /\ f["dados_brutos"].t = "dict"
        s0 == Get(f, "status")
        s1 == IF ~Truthy(s0) /\ hasRaw
              THEN Get(f["dados_brutos"].d, "status") ELSE s0
        s2 == IF ~Truthy(s1) /\ hasRaw
              THEN Get(f["dados_brutos"].d, "STATUS") ELSE s1
        status == PyOr(s2, PyStr(DefaultStatus))
    IN  IF Truthy(status) THEN Strip(Str(status)) ELSE "DESCONHECID"

\* lines 105-118
PrepareLocal(imei, f) ==
    [k \in RecordKeys |->
        CASE k = "imei" -> PyStr(imei)
          [] k = "status" -> PyStr(LocalStatus(f))
          [] k = "dados_brutos" -> GetDefault(f, "dados_brutos", PyDict(f))
          [] OTHER -> Get(f, k)]

\* lines 126-143
PrepareWithLookup(imei, f, dados) ==
    [k \in RecordKeys |->
        CASE k = "imei" -> PyStr(imei)
          [] k = "status" ->
                PyStr(Strip(Str(PyOr(Get(f, "status"),
                                     PyOr(Get(dados, "status"),
                                          PyStr(DefaultStatus))))))
          [] k = "observacao" -> Get(f, "observacao")
          [] k = "dados_brutos" -> PyDict(Merge(dados, f))
          [] OTHER -> GetDefault(f, k, Get(dados, k))]

\* lines 153-166
PrepareBare(imei, dados) ==
    [k \in RecordKeys |->
        CASE k = "imei" -> PyStr(imei)
          [] k = "status" -> PyOr(Get(dados, "status"), PyStr(DefaultStatus))
          [] k = "observacao" -> PyNone
          [] k = "dados_brutos" -> PyDict(dados)
          [] OTHER -> Get(dados, k)]

\* lines 116-117, 142-143, 164-165: the two readings of the clock that
\* every prepared record carries
Stamped(imei_data, t) ==
    With(With(imei_data, "data_inclusao", PyInt(t)), "data_atualizacao", PyInt(t))

\* the imei_data of an item that is neither skipped nor raises
PrepareItem(imei_item, dados) ==
    IF imei_item.t = "dict"
    THEN IF HasLocalFields(imei_item.d)
         THEN PrepareLocal(ItemImei(imei_item), imei_item.d)
         ELSE PrepareWithLookup(ItemImei(imei_item), imei_item.d, dados)
    ELSE PrepareBare(ItemImei(imei_item), dados)

-----------------------------------------------------------------------------
(* ClusterService.create_cluster: insertion (lines 173-215) *)

\* json.loads on the serialized payloads the model uses; FALSE stands for
\* JSONDecodeError
JsonDecodable(x) == x = "{}"

JsonLoads(x) == PyDict(EmptyDict)

\* BeforeInsert without the status guard of lines 191-193
BeforeInsert_NoStatusGuard(imei_data) ==
    LET raw == imei_data["dados_brutos"]
    IN  IF raw.t = "str" /\ JsonDecodable(raw.s)
        THEN With(imei_data, "dados_brutos", JsonLoads(raw.s))
        ELSE imei_data

\* lines 180-193: what is done to imei_data before the INSERT
BeforeInsert(imei_data) ==
    LET raw == imei_data["dados_brutos"]
        d1 == IF raw.t = "str" /\ JsonDecodable(raw.s)
              THEN With(imei_data, "dados_brutos", JsonLoads(raw.s))
              ELSE imei_data
    IN  IF "status" \notin DOMAIN d1 \/ ~Truthy(d1["status"])
        THEN With(d1, "status", PyStr(DefaultStatus))
        ELSE d1

\* the unique index on the imei column (models/cluster.py line 30): the
\* INSERT raises IntegrityError when a row of the table, committed or
\* written by this transaction, has the same imei
UniqueViolation(rows, imei_data) ==
    \E i \in 1..Len(rows) : rows[i]["imei"] = imei_data["imei"]

\* the length of the imei column, String(20) (models/cluster.py line 30)
ImeiMaxLen == 20

\* the database refuses a value longer than its column with DataError
TooLong(imei_data) == Len(Str(imei_data["imei"])) > ImeiMaxLen

\* the exception the INSERT of imei_data raises, "" when it succeeds
InsertError(rows, imei_data) ==
    IF TooLong(imei_data) THEN "DataError"
    ELSE IF UniqueViolation(rows, imei_data) THEN "IntegrityError"
    ELSE ""

\* str(cluster.id).replace("-", "_")
RECURSIVE ReplaceHyphens(_)
ReplaceHyphens(x) ==
    IF Len(x) = 0 THEN ""
    ELSE (IF SubSeq(x, 1, 1) = "-" THEN "_" ELSE SubSeq(x, 1, 1))
            \o ReplaceHyphens(SubSeq(x, 2, Len(x)))

\* ClusterDB.create_cluster_table: the name of a cluster's table
TableName(cluster_id) == "cluster_" \o ReplaceHyphens(cluster_id)

-----------------------------------------------------------------------------
(* Inputs of the model *)

SeqsUpTo(S, n) == UNION {[1..k -> S] : k \in 0..n}

\* header lines: the usual one, one whose names need the Column Mapper and
\* that carries an unmapped column, one without IMEI, a blank line
CsvHeaders ==
    {<<"IMEI", "MODELO", "STATUS">>, <<" imei ", "Cor">>, <<"MODELO", "STATUS">>,
     <<>>}

\* data lines offered under a header; one IMEI is longer than the column
\* that stores it
CsvRows(header) ==
    CASE header = <<"IMEI", "MODELO", "STATUS">> ->
            {<<"1", "A", "OK">>, <<"1", "", "">>, <<" 2 ", "B", " ">>,
             <<"", "A", "OK">>, <<"", "", "">>, <<>>, <<"2">>,
             <<"123456789012345678901", "A", "OK">>}
      [] header = <<" imei ", "Cor">> -> {<<"1", "azul">>, <<"2", "">>}
      [] header = <<"MODELO", "STATUS">> -> {<<"A", "OK">>}
      [] header = <<>> -> {<<"IMEI">>, <<"1">>}

\* the uploaded files: the empty file, and a header followed by data lines
CsvFiles ==
    {<<>>} \cup
    UNION {{<<h>> \o rows : rows \in SeqsUpTo(CsvRows(h), MaxRows)} :
                h \in CsvHeaders}

\* records of the external inventory
ItemFull ==
    [k \in {"Modelo", "Status", "Fabrica", "IdAtivo"} |->
        CASE k = "Modelo" -> PyStr("M9")
          [] k = "Status" -> PyStr("ATIVO")
          [] k = "Fabrica" -> PyStr("ACME")
          [] k = "IdAtivo" -> PyStr("77")]

ItemBare ==
    [k \in {"modelo", "status"} |->
        IF k = "modelo" THEN PyStr("M9") ELSE PyStr("")]

JsonList(elems) == PyDict([k \in {"0"} |-> elems])

BodyWith(item) ==
    PyDict([k \in {"data", "totalCount"} |->
                IF k = "data" THEN JsonList(item) ELSE PyStr("1")])

BodyEmpty ==
    PyDict([k \in {"data", "totalCount"} |->
                IF k = "data" THEN PyDict(EmptyDict) ELSE PyStr("0")])

BodyNoData == PyDict([k \in {"error"} |-> PyStr("denied")])

\* what the external service can do during one lookup
Worlds ==
    {[auth |-> a, query |-> "200", body |-> BodyEmpty] :
        a \in AuthOutcomes \ {"ok"}}
    \cup {[auth |-> "ok", query |-> q, body |-> BodyEmpty] :
        q \in QueryOutcomes \ {"200"}}
    \cup {[auth |-> "ok", query |-> "200", body |-> b] :
        b \in {BodyEmpty, BodyNoData, BodyWith(PyStr("x")),
               BodyWith(PyDict(ItemFull)), BodyWith(PyDict(ItemBare))}}

\* items of a list handed directly to create_cluster: bare id strings,
\* dicts with local fields, dicts without
DirectItems ==
    {PyStr("1"), PyStr(" 1"), PyStr(""),
     PyDict([k \in {"imei", "status"} |->
                IF k = "imei" THEN PyStr("2") ELSE PyStr(" ")]),
     PyDict([k \in {"imei", "modelo"} |->
                IF k = "imei" THEN PyStr("2") ELSE PyStr("A")]),
     PyDict([k \in {"imei", "status", "dados_brutos"} |->
                CASE k = "imei" -> PyStr("3")
                  [] k = "status" -> PyNone
                  [] k = "dados_brutos" ->
                        PyDict([j \in {"STATUS"} |-> PyStr("OK")])]),
     PyDict([k \in {"imei", "status"} |->
                IF k = "imei" THEN PyNone ELSE PyStr("OK")]),
     PyDict([k \in {"imei", "empresa"} |->
                IF k = "imei" THEN PyStr("2") ELSE PyStr("E1")])}

\* the ids uuid4 can give to a new cluster
ClusterIds == {"c-1"}

-----------------------------------------------------------------------------
(* The bodies of the answers *)

\* HTTPException(status_code, detail)
ErrorBody(detail) == [k \in {"detail"} |-> PyStr(detail)]

RECURSIVE total_registros(_)
\* sum(len(registros) for registros in imei_groups.values())
total_registros(groups) ==
    IF Len(groups) = 0 THEN 0
    ELSE Len(groups[1].registros) + total_registros(Tail(groups))

\* processar_csv, lines 408-414; id is None when no cluster was created
CsvBody(groups, created, id) ==
    [k \in {"message", "total_imeis_unicos", "total_registros", "cluster_id",
            "cluster_nome"} |->
        CASE k = "message" ->
                PyStr("Arquivo processado com sucesso"
                        \o (IF created THEN " e cluster criado" ELSE ""))
          [] k = "total_imeis_unicos" -> PyInt(Len(groups))
          [] k = "total_registros" -> PyInt(total_registros(groups))
          [] k = "cluster_id" -> id
          [] k = "cluster_nome" ->
                IF id.t = "none" THEN PyNone ELSE PyStr("Cluster do arquivo")]

\* ClusterService._to_cluster_response; the name, the description and the
\* creation date are left out
ClusterBody(id, total_imeis) ==
    [k \in {"id", "total_imeis"} |->
        IF k = "id" THEN PyStr(id) ELSE PyInt(total_imeis)]

-----------------------------------------------------------------------------
(* State *)

VARIABLES
    pc,                  \* position of the request being served
    caller,              \* "csv" (processar_csv) or "direct" (the cluster routes)
    imei_groups,         \* processar_csv: the grouper's result
    gi,                  \* processar_csv: index of the next group
    respostas,           \* history: resposta_api of each group handled
    mundos,              \* history: the world of each group's lookup
    imeis_para_cluster,  \* processar_csv: the reconciled records
    route_autenticado,   \* _autenticado of the routes' imei_service
    cs_autenticado,      \* _autenticado of ClusterService.imei_service
    cluster_id,          \* create_cluster: id of the master row
    imeis,               \* create_cluster: the argument
    pi,                  \* create_cluster: index of the next item to prepare
    imeis_to_insert,     \* create_cluster: the prepared records
    ii,                  \* create_cluster: index of the next record to insert
    tx,                  \* rows written by the open transaction
    clusters,            \* master table: cluster id -> [nome, total_imeis]
    tables,              \* cluster tables: table name -> committed rows
    insert_errors,       \* history: the records whose INSERT raised
    outcome,             \* the status with which the request ended
    response,            \* the body of the answer: key -> value
    now,                 \* the clock that datetime.utcnow() reads
    dropped,             \* history: a cluster table was removed from outside
    q_call,              \* get_cluster_with_imei_data: the call and its end
    q_result,            \* get_cluster_with_imei_data: the dict it returned
    qr_out,              \* get_qrcode_cluster: the status and the qr_data encoded
    csv_text,            \* process_csv_stream: the lines of the stream
    reader_pos,          \* process_csv_stream: lines the reader has consumed
    g_pc,                \* process_csv_stream: position
    g_groups,            \* process_csv_stream: imei_groups
    g_err,               \* process_csv_stream: the error it raised
    e_pc,                \* generate_qr_code: position
    e_data,              \* generate_qr_code: the argument data
    e_modelos,           \* generate_qr_code: modelos
    e_json,              \* generate_qr_code: json_data
    e_exc,               \* generate_qr_code: str(e) of the exception caught
    e_symbol,            \* generate_qr_code: the symbol of the image returned
    session,             \* imei_service.session of the routes: cookie, pool
    reqs                 \* the requests that use the routes' imei_service

vars ==
    <<pc, caller, imei_groups, gi, respostas, mundos, imeis_para_cluster,
      route_autenticado, cs_autenticado, cluster_id, imeis, pi,
      imeis_to_insert, ii, tx, clusters, tables, insert_errors, outcome,
      response, now, dropped, q_call, q_result, qr_out, csv_text, reader_pos,
      g_pc, g_groups, g_err, e_pc, e_data, e_modelos, e_json, e_exc, e_symbol,
      session, reqs>>

csvVars ==
    <<imei_groups, gi, respostas, mundos, imeis_para_cluster, route_autenticado>>

ccVars == <<cluster_id, imeis, pi, imeis_to_insert, ii, cs_autenticado>>

dbVars == <<tx, clusters, tables, insert_errors>>

\* the clock, and what the queries of a cluster leave behind
storeEnvVars == <<now, dropped, q_call, q_result, qr_out>>

\* one run of process_csv_stream, step by step
grouperVars == <<csv_text, reader_pos, g_pc, g_groups, g_err>>

\* one call of generate_qr_code
encoderVars == <<e_pc, e_data, e_modelos, e_json, e_exc, e_symbol>>

\* the session of the routes' lookup client and the requests that use it
clientVars == <<session, reqs>>

\* what neither the pipeline, nor the store's environment, nor the grouper
\* changes
otherVars == <<encoderVars, clientVars>>

\* what no step of processar_csv or create_cluster changes
restVars == <<storeEnvVars, grouperVars, otherVars>>

InitPipeline ==
    /\ pc = "idle"
    /\ caller = "none"
    /\ imei_groups = <<>>
    /\ gi = 1
    /\ respostas = <<>>
    /\ mundos = <<>>
    /\ imeis_para_cluster = <<>>
    /\ route_autenticado = FALSE
    /\ cs_autenticado = FALSE
    /\ cluster_id = ""
    /\ imeis = <<>>
    /\ pi = 1
    /\ imeis_to_insert = <<>>
    /\ ii = 1
    /\ tx = <<>>
    /\ clusters = EmptyDict
    /\ tables = EmptyDict
    /\ insert_errors = <<>>
    /\ outcome = "none"
    /\ response = EmptyDict
    /\ now = 0
    /\ dropped = FALSE
    /\ q_call = [cluster_id |-> "", detalhado |-> FALSE, ret |-> "none"]
    /\ q_result = EmptyDict
    /\ qr_out = [status |-> "none", qr_data |-> EmptyDict]

\* process_csv_stream is not running
GrouperIdle ==
    /\ csv_text = <<>>
    /\ reader_pos = 0
    /\ g_pc = "idle"
    /\ g_groups = <<>>
    /\ g_err = ""

\* no symbol: what e_symbol holds until generate_qr_code returns
NoSymbol == [text |-> "", version |-> 0, error_correction |-> ""]

\* generate_qr_code is not running
EncoderIdle ==
    /\ e_pc = "idle"
    /\ e_data = EmptyDict
    /\ e_modelos = <<>>
    /\ e_json = ""
    /\ e_exc = ""
    /\ e_symbol = NoSymbol

\* ConsultaImeiService.__init__, lines 16-22: a new session has no
\* authentication cookie and no open connection
NewSession == [cookie |-> FALSE, pool |-> "closed"]

\* a request that has not arrived
NoRequest == [kind |-> "none", pc |-> "idle", left |-> 0, resultados |-> <<>>]

\* the two requests of the lookup client's clients
Requests == {1, 2}

\* the routes' imei_service is constructed and no request uses it
ClientIdle ==
    /\ session = NewSession
    /\ reqs = [r \in Requests |-> NoRequest]

Init ==
    /\ InitPipeline
    /\ GrouperIdle
    /\ EncoderIdle
    /\ ClientIdle

-----------------------------------------------------------------------------
(* processar_csv (routes/imei.py) *)

\* lines 272-350: the upload is grouped; a grouper error ends the request
\* with HTTP 500
UploadCsv(lines) ==
    /\ pc = "idle"
    /\ LET r == process_csv_stream(lines)
       IN  IF r.err # ""
           THEN /\ pc' = "done"
                /\ outcome' = "500: " \o r.err
                /\ response' = ErrorBody("Erro inesperado ao processar o CSV: "
                                            \o r.err)
                /\ UNCHANGED imei_groups
           ELSE /\ pc' = "reconcile"
                /\ imei_groups' = r.groups
                /\ UNCHANGED <<outcome, response>>
    /\ caller' = "csv"
    /\ UNCHANGED <<gi, respostas, mundos, imeis_para_cluster, route_autenticado>>
    /\ UNCHANGED <<ccVars, dbVars>>
    /\ UNCHANGED restVars

\* lines 352-388: one turn of the loop over imei_groups, the external
\* service behaving as world w
ReconcileGroup(w) ==
    /\ pc = "reconcile"
    /\ gi <= Len(imei_groups)
    /\ LET imei == imei_groups[gi].imei
           dados_csv == dados_csv_of(imei, imei_groups[gi].registros)
           resposta_api == consultar_imei(imei, route_autenticado, w)
       IN  /\ imeis_para_cluster' =
                    Append(imeis_para_cluster, reconcile(dados_csv, resposta_api))
           /\ respostas' = Append(respostas, resposta_api)
    /\ mundos' = Append(mundos, [w |-> w, autenticado |-> route_autenticado])
    /\ route_autenticado' = autenticado_after(route_autenticado, w)
    /\ gi' = gi + 1
    /\ UNCHANGED <<pc, caller, imei_groups, outcome, response, ccVars, dbVars>>
    /\ UNCHANGED restVars

\* lines 392-403: the request asked for a cluster (criar_cluster_automatico)
CsvCreateCluster ==
    /\ pc = "reconcile"
    /\ gi > Len(imei_groups)
    /\ Len(imei_groups) > 0
    /\ imeis' = [i \in 1..Len(imeis_para_cluster) |->
                        PyDict(imeis_para_cluster[i])]
    /\ pc' = "cc_add"
    /\ UNCHANGED <<caller, outcome, response, csvVars, dbVars>>
    /\ UNCHANGED <<cluster_id, pi, imeis_to_insert, ii, cs_autenticado>>
    /\ UNCHANGED restVars

\* lines 392, 408-414: criar_cluster_automatico is false
CsvNoCluster ==
    /\ pc = "reconcile"
    /\ gi > Len(imei_groups)
    /\ pc' = "done"
    /\ outcome' = "200"
    /\ response' = CsvBody(imei_groups, FALSE, PyNone)
    /\ UNCHANGED <<caller, csvVars, ccVars, dbVars>>
    /\ UNCHANGED restVars

-----------------------------------------------------------------------------
(* The cluster routes: create_cluster called with the caller's own list *)

DirectCreateCluster(list) ==
    /\ pc = "idle"
    /\ caller' = "direct"
    /\ imeis' = list
    /\ pc' = "cc_add"
    /\ UNCHANGED <<outcome, response, csvVars, dbVars>>
    /\ UNCHANGED <<cluster_id, pi, imeis_to_insert, ii, cs_autenticado>>
    /\ UNCHANGED restVars

-----------------------------------------------------------------------------
(* ClusterService.create_cluster *)

\* lines 37-45: the master row is added and committed
AddCluster ==
    /\ pc = "cc_add"
    /\ \E id \in ClusterIds \ DOMAIN clusters :
          /\ cluster_id' = id
          /\ clusters' = With(clusters, id, [total_imeis |-> 0])
    /\ pc' = "cc_table"
    /\ UNCHANGED <<caller, outcome, response, csvVars, tx, tables, insert_errors>>
    /\ UNCHANGED <<imeis, pi, imeis_to_insert, ii, cs_autenticado>>
    /\ UNCHANGED restVars

\* lines 48-49: the cluster's table is created if absent
CreateTable ==
    /\ pc = "cc_table"
    /\ tables' = IF TableName(cluster_id) \in DOMAIN tables
                 THEN tables
                 ELSE With(tables, TableName(cluster_id), <<>>)
    /\ pc' = "cc_prepare"
    /\ UNCHANGED <<caller, outcome, response, csvVars, ccVars, tx, clusters, insert_errors>>
    /\ UNCHANGED restVars

\* lines 59-61, 149-150, 169-170: an item with an empty IMEI is skipped, and
\* so is one whose preparation raises
PrepareSkip ==
    /\ pc = "cc_prepare"
    /\ pi <= Len(imeis)
    /\ ImeiRaises(imeis[pi]) \/ ItemImei(imeis[pi]) = ""
    /\ pi' = pi + 1
    /\ UNCHANGED <<pc, caller, outcome, response, csvVars, dbVars>>
    /\ UNCHANGED <<cluster_id, imeis, imeis_to_insert, ii, cs_autenticado>>
    /\ UNCHANGED restVars

\* lines 64-121: a dict that carries local fields is used as it is
PrepareFromLocal ==
    /\ pc = "cc_prepare"
    /\ pi <= Len(imeis)
    /\ ~ImeiRaises(imeis[pi])
    /\ ItemImei(imeis[pi]) # ""
    /\ ~NeedsLookup(imeis[pi])
    /\ imeis_to_insert' =
            Append(imeis_to_insert,
                   Stamped(PrepareItem(imeis[pi], EmptyDict), now))
    /\ pi' = pi + 1
    /\ UNCHANGED <<pc, caller, outcome, response, csvVars, dbVars>>
    /\ UNCHANGED <<cluster_id, imeis, ii, cs_autenticado>>
    /\ UNCHANGED restVars

\* lines 122-166: other items are looked up, the service behaving as world w
PrepareFromLookup(w) ==
    /\ pc = "cc_prepare"
    /\ pi <= Len(imeis)
    /\ NeedsLookup(imeis[pi])
    /\ LET dados == consultar_imei(ItemImei(imeis[pi]), cs_autenticado, w)
       IN  imeis_to_insert' =
                Append(imeis_to_insert,
                       Stamped(PrepareItem(imeis[pi], dados), now))
    /\ cs_autenticado' = autenticado_after(cs_autenticado, w)
    /\ pi' = pi + 1
    /\ UNCHANGED <<pc, caller, outcome, response, csvVars, dbVars>>
    /\ UNCHANGED <<cluster_id, imeis, ii>>
    /\ UNCHANGED restVars

\* line 173 and 176: a transaction is opened when there is something to insert
BeginInserts ==
    /\ pc = "cc_prepare"
    /\ pi > Len(imeis)
    /\ pc' = IF Len(imeis_to_insert) > 0 THEN "cc_insert" ELSE "cc_count"
    /\ UNCHANGED <<caller, outcome, response, csvVars, ccVars, dbVars>>
    /\ UNCHANGED restVars

\* InsertRecord with each INSERT committed on its own and the count of the
\* master row kept up to date row by row
InsertRecord_CountsAsItGoes ==
    /\ pc = "cc_insert"
    /\ ii <= Len(imeis_to_insert)
    /\ LET imei_data == BeforeInsert(imeis_to_insert[ii])
       IN  /\ InsertError(tables[TableName(cluster_id)] \o tx, imei_data) = ""
           /\ tables' = [tables EXCEPT ![TableName(cluster_id)] =
                                Append(@, imei_data)]
    /\ clusters' = [clusters EXCEPT ![cluster_id].total_imeis = @ + 1]
    /\ ii' = ii + 1
    /\ UNCHANGED <<pc, caller, outcome, response, csvVars, tx, insert_errors>>
    /\ UNCHANGED <<cluster_id, imeis, pi, imeis_to_insert, cs_autenticado>>
    /\ UNCHANGED restVars

\* lines 178-211: one record is inserted in the open transaction
InsertRecord ==
    /\ pc = "cc_insert"
    /\ ii <= Len(imeis_to_insert)
    /\ LET imei_data == BeforeInsert(imeis_to_insert[ii])
       IN  /\ InsertError(tables[TableName(cluster_id)] \o tx, imei_data) = ""
           /\ tx' = Append(tx, imei_data)
    /\ ii' = ii + 1
    /\ UNCHANGED <<pc, caller, outcome, response, csvVars, clusters, tables, insert_errors>>
    /\ UNCHANGED <<cluster_id, imeis, pi, imeis_to_insert, cs_autenticado>>
    /\ UNCHANGED restVars

\* InsertFails with each INSERT committed on its own: the rows written
\* before the failing one stay in the table
InsertFails_KeepsEarlier ==
    /\ pc = "cc_insert"
    /\ ii <= Len(imeis_to_insert)
    /\ LET imei_data == BeforeInsert(imeis_to_insert[ii])
           error == InsertError(tables[TableName(cluster_id)] \o tx, imei_data)
       IN  /\ error # ""
           /\ insert_errors' = Append(insert_errors, imei_data)
           /\ outcome' = (IF caller = "csv" THEN "500: " ELSE "400: ") \o error
           /\ response' =
                ErrorBody((IF caller = "csv"
                           THEN "Erro ao processar a requisição: "
                           ELSE "Erro ao criar cluster: ") \o error)
    /\ tables' = [tables EXCEPT ![TableName(cluster_id)] = @ \o tx]
    /\ tx' = <<>>
    /\ pc' = "done"
    /\ UNCHANGED <<caller, csvVars, ccVars, clusters>>
    /\ UNCHANGED restVars

\* lines 196-199, 213-215: the INSERT raises (the unique index, or an imei
\* longer than its column); engine.begin() rolls the transaction back and
\* create_cluster re-raises; the route answers with an HTTP error
\* (imei.py 416-422, 443-447; cluster_routes.py 32-33)
InsertFails ==
    /\ pc = "cc_insert"
    /\ ii <= Len(imeis_to_insert)
    /\ LET imei_data == BeforeInsert(imeis_to_insert[ii])
           error == InsertError(tables[TableName(cluster_id)] \o tx, imei_data)
       IN  /\ error # ""
           /\ insert_errors' = Append(insert_errors, imei_data)
           /\ outcome' = (IF caller = "csv" THEN "500: " ELSE "400: ") \o error
           /\ response' =
                ErrorBody((IF caller = "csv"
                           THEN "Erro ao processar a requisição: "
                           ELSE "Erro ao criar cluster: ") \o error)
    /\ tx' = <<>>
    /\ pc' = "done"
    /\ UNCHANGED <<caller, csvVars, ccVars, clusters, tables>>
    /\ UNCHANGED restVars

\* line 176: leaving the with block commits the transaction
CommitInserts ==
    /\ pc = "cc_insert"
    /\ ii > Len(imeis_to_insert)
    /\ tables' = [tables EXCEPT ![TableName(cluster_id)] = @ \o tx]
    /\ tx' = <<>>
    /\ pc' = "cc_count"
    /\ UNCHANGED <<caller, outcome, response, csvVars, ccVars, clusters, insert_errors>>
    /\ UNCHANGED restVars

\* UpdateCount counting the items of the argument instead of the prepared
\* records
UpdateCount_CountsItems ==
    /\ pc = "cc_count"
    /\ clusters' = [clusters EXCEPT ![cluster_id].total_imeis =
                            Len(imeis)]
    /\ pc' = "done"
    /\ outcome' = IF caller = "csv" THEN "200" ELSE "201"
    /\ response' =
            IF caller = "csv"
            THEN CsvBody(imei_groups, TRUE, PyStr(cluster_id))
            ELSE ClusterBody(cluster_id, Len(imeis))
    /\ UNCHANGED <<caller, csvVars, ccVars, tx, tables, insert_errors>>
    /\ UNCHANGED restVars

\* lines 218-228: total_imeis is set and committed, the cluster is returned
UpdateCount ==
    /\ pc = "cc_count"
    /\ clusters' = [clusters EXCEPT ![cluster_id].total_imeis =
                            Len(imeis_to_insert)]
    /\ pc' = "done"
    /\ outcome' = IF caller = "csv" THEN "200" ELSE "201"
    /\ response' =
            IF caller = "csv"
            THEN CsvBody(imei_groups, TRUE, PyStr(cluster_id))
            ELSE ClusterBody(cluster_id, Len(imeis_to_insert))
    /\ UNCHANGED <<caller, csvVars, ccVars, tx, tables, insert_errors>>
    /\ UNCHANGED restVars

Next ==
    \/ \E lines \in CsvFiles : UploadCsv(lines)
    \/ \E w \in Worlds : ReconcileGroup(w)
    \/ CsvCreateCluster
    \/ CsvNoCluster
    \/ \E list \in SeqsUpTo(DirectItems, MaxItems) : DirectCreateCluster(list)
    \/ AddCluster
    \/ CreateTable
    \/ PrepareSkip
    \/ PrepareFromLocal
    \/ \E w \in Worlds : PrepareFromLookup(w)
    \/ BeginInserts
    \/ InsertRecord
    \/ InsertFails
    \/ CommitInserts
    \/ UpdateCount

Spec == Init /\ [][Next]_vars

-----------------------------------------------------------------------------
(* ClusterService.get_cluster_with_imei_data (lines 267-375) *)

Digits == <<"0", "1", "2", "3", "4", "5", "6", "7", "8", "9">>

\* datetime.isoformat() of the instants of the model's clock
isoformat(t) == "2024-01-01T00:00:0" \o Digits[t + 1]

\* imei.data_inclusao.isoformat() if imei.data_inclusao else None
IsoOrNone(v) == IF v.t = "int" THEN PyStr(isoformat(v.n)) ELSE PyNone

\* the place of a character in the order of the database's collation, for
\* the characters of the model's IMEIs: the space, then the digits
CharRank(c) ==
    IF \E i \in 1..Len(Digits) : Digits[i] = c
    THEN CHOOSE i \in 1..Len(Digits) : Digits[i] = c
    ELSE 0

RECURSIVE StrLess(_, _)
\* a < b in the database's order of strings
StrLess(a, b) ==
    IF Len(b) = 0 THEN FALSE
    ELSE IF Len(a) = 0 THEN TRUE
    ELSE LET ra == CharRank(SubSeq(a, 1, 1))
             rb == CharRank(SubSeq(b, 1, 1))
         IN  \/ ra < rb
             \/ ra = rb /\ StrLess(SubSeq(a, 2, Len(a)), SubSeq(b, 2, Len(b)))

\* ORDER BY data_inclusao DESC, imei (line 334): row a comes before row b
RowBefore(a, b) ==
    \/ a["data_inclusao"].n > b["data_inclusao"].n
    \/ /\ a["data_inclusao"].n = b["data_inclusao"].n
       /\ StrLess(a["imei"].s, b["imei"].s)

RECURSIVE OrderBy(_, _)
\* the rows of indices S in the order of the ORDER BY clause
OrderBy(rows, S) ==
    IF S = {} THEN <<>>
    ELSE LET first == CHOOSE i \in S :
                        \A j \in S \ {i} : RowBefore(rows[i], rows[j])
         IN  <<rows[first]>> \o OrderBy(rows, S \ {first})

\* lines 319-326: the columns the SELECT names
campos(detalhado) ==
    {"imei", "modelo", "status", "fabricante"}
        \cup (IF detalhado
              THEN {"tipo_ativo", "empresa", "numero_chamado", "localizacao",
                    "data_inclusao", "data_atualizacao"}
              ELSE {})

\* lines 342-358: the imei_dict of a fetched row
imei_dict(row, detalhado) ==
    [k \in campos(detalhado) |->
        IF k \in {"data_inclusao", "data_atualizacao"}
        THEN IsoOrNone(row[k])
        ELSE row[k]]

\* lines 294-302: the answer before the rows are fetched; the name, the
\* description and the creation date are left out
ResultBase(id, total_imeis) ==
    [k \in {"id", "total_imeis", "imeis", "detalhes_imeis"} |->
        CASE k = "id" -> PyStr(id)
          [] k = "total_imeis" -> PyInt(total_imeis)
          [] k = "imeis" -> PyList(<<>>)
          [] k = "detalhes_imeis" -> PyDict(EmptyDict)]

\* lines 337-362: the answer once the rows are fetched
ResultWithRows(id, fetched, detalhado) ==
    [k \in {"id", "total_imeis", "imeis", "detalhes_imeis"} |->
        CASE k = "id" -> PyStr(id)
          [] k = "total_imeis" -> PyInt(Len(fetched))
          [] k = "imeis" ->
                PyList([i \in 1..Len(fetched) |-> fetched[i]["imei"]])
          [] k = "detalhes_imeis" ->
                PyDict([imei \in {fetched[i]["imei"].s : i \in 1..Len(fetched)} |->
                    PyDict(imei_dict(
                        fetched[CHOOSE i \in 1..Len(fetched) :
                                    fetched[i]["imei"].s = imei],
                        detalhado))])]

\* get_cluster_with_imei_data: [ret, result]. The module defines no logger
\* (lines 1-10): logger.warning of line 316 raises NameError, the handler of
\* line 373 raises it again at line 374, and the call ends with it
get_cluster_with_imei_data(id, detalhado) ==
    IF id \notin DOMAIN clusters
    THEN [ret |-> "None", result |-> EmptyDict]
    ELSE LET total_imeis == clusters[id].total_imeis
         IN  IF total_imeis = 0
             THEN [ret |-> "dict", result |-> ResultBase(id, total_imeis)]
             ELSE IF TableName(id) \notin DOMAIN tables
             THEN [ret |-> "raise: NameError", result |-> EmptyDict]
             ELSE LET rows == tables[TableName(id)]
                      fetched == OrderBy(rows, 1..Len(rows))
                  IN  [ret |-> "dict",
                       result |-> ResultWithRows(id, fetched, detalhado)]

-----------------------------------------------------------------------------
(* The Cluster Store with its environment: the clock advances, the DDL     *)
(* statement can fail, a table can be removed from outside, and clusters   *)
(* are queried                                                             *)

\* time passes before an item is prepared
Tick ==
    /\ pc = "cc_prepare"
    /\ pi <= Len(imeis)
    /\ now < MaxClock
    /\ now' = now + 1
    /\ UNCHANGED <<pc, caller, outcome, response, csvVars, ccVars, dbVars>>
    /\ UNCHANGED <<dropped, q_call, q_result, qr_out>>
    /\ UNCHANGED <<grouperVars, otherVars>>

\* lines 48-49: cluster_table.create raises (the database refuses or the
\* connection is lost); the master row was committed at line 44 and nothing
\* removes it; the route answers with an HTTP error
CreateTableFails ==
    /\ pc = "cc_table"
    /\ pc' = "done"
    /\ outcome' = (IF caller = "csv" THEN "500: " ELSE "400: ")
                        \o "OperationalError"
    /\ response' =
            ErrorBody((IF caller = "csv"
                       THEN "Erro ao processar a requisição: "
                       ELSE "Erro ao criar cluster: ") \o "OperationalError")
    /\ UNCHANGED <<caller, csvVars, ccVars, dbVars, storeEnvVars, grouperVars,
                   otherVars>>

\* lines 309-317: the state the table_exists test is written for; a
\* cluster's table is removed from outside the service
DropTable ==
    /\ pc = "done"
    /\ ~dropped
    /\ \E name \in DOMAIN tables :
          tables' = [n \in DOMAIN tables \ {name} |-> tables[n]]
    /\ dropped' = TRUE
    /\ UNCHANGED <<pc, caller, outcome, response, csvVars, ccVars>>
    /\ UNCHANGED <<tx, clusters, insert_errors, now, q_call, q_result, qr_out>>
    /\ UNCHANGED <<grouperVars, otherVars>>

\* a later request asks for a cluster
QueryCluster(id, detalhado) ==
    /\ pc = "done"
    /\ LET r == get_cluster_with_imei_data(id, detalhado)
       IN  /\ q_call' = [cluster_id |-> id, detalhado |-> detalhado,
                         ret |-> r.ret]
           /\ q_result' = r.result
    /\ pc' = "queried"
    /\ UNCHANGED <<caller, outcome, response, csvVars, ccVars, dbVars>>
    /\ UNCHANGED <<now, dropped, qr_out>>
    /\ UNCHANGED <<grouperVars, otherVars>>

RECURSIVE ReplaceAll(_, _, _)
\* x.replace(old, new), old not empty
ReplaceAll(x, old, new) ==
    IF Len(x) < Len(old) THEN x
    ELSE IF SubSeq(x, 1, Len(old)) = old
    THEN new \o ReplaceAll(SubSeq(x, Len(old) + 1, Len(x)), old, new)
    ELSE SubSeq(x, 1, 1) \o ReplaceAll(SubSeq(x, 2, Len(x)), old, new)

\* 'c' in x
HasChar(x, c) == \E i \in 1..Len(x) : SubSeq(x, i, i) = c

\* routes/imei.py lines 512-530: the ids get_qrcode_cluster asks for, in
\* order, as long as the cluster is not found
IdsTried(id) ==
    LET clean_id == ReplaceAll(id, "cluster_", "")
        with_hyphens == IF HasChar(clean_id, "_")
                        THEN ReplaceAll(clean_id, "_", "-")
                        ELSE clean_id
    IN  <<id>>
        \o (IF HasChar(clean_id, "_") THEN <<with_hyphens>> ELSE <<>>)
        \o (IF HasChar(with_hyphens, "-")
            THEN <<ReplaceAll(with_hyphens, "-", "")>>
            ELSE <<>>)

RECURSIVE FirstFound(_, _)
\* the first of the ids for which the query does not return None: its
\* call, or the call of the last id
FirstFound(ids, n) ==
    LET r == get_cluster_with_imei_data(ids[n], TRUE)
    IN  IF r.ret # "None" \/ n = Len(ids)
        THEN [cluster_id |-> ids[n], ret |-> r.ret, result |-> r.result]
        ELSE FirstFound(ids, n + 1)

RECURSIVE SetToSeq(_)
\* the members of a set one after the other; the dicts of the model keep no
\* order of their keys
SetToSeq(S) ==
    IF S = {} THEN <<>>
    ELSE LET x == CHOOSE x \in S : TRUE IN <<x>> \o SetToSeq(S \ {x})

\* routes/imei.py lines 548-575: the qr_data built from the dict of the
\* query; the name, the description and the creation date are left out
qr_data_of(cluster) ==
    LET dados_imeis == GetDefault(cluster, "dados_imeis", PyDict(EmptyDict)).d
    IN  [k \in {"tipo", "id", "total_imeis", "imeis", "detalhes_imeis"} |->
            CASE k = "tipo" -> PyStr("cluster_imei")
              [] k = "id" -> cluster["id"]
              [] k = "total_imeis" -> cluster["total_imeis"]
              [] k = "imeis" ->
                    PyList([i \in 1..Cardinality(DOMAIN dados_imeis) |->
                                PyStr(SetToSeq(DOMAIN dados_imeis)[i])])
              [] k = "detalhes_imeis" ->
                    PyDict([imei \in DOMAIN dados_imeis |->
                        PyDict([f \in campos(TRUE) |->
                            IF f = "imei" THEN PyStr(imei)
                            ELSE Get(dados_imeis[imei].d, f)])])]

\* the ids a QR code is asked for: the id of a cluster, the name of its
\* table, and an id no cluster has
QrIds == ClusterIds \cup {TableName(id) : id \in ClusterIds} \cup {"c-2"}

\* routes/imei.py lines 493-633, GET /clusters/{cluster_id}/qrcode: 404
\* when no id tried is found, 500 when the query raises, else the QR code
\* of qr_data
GetQrcodeCluster(id) ==
    /\ pc = "done"
    /\ LET r == FirstFound(IdsTried(id), 1)
       IN  /\ q_call' = [cluster_id |-> r.cluster_id, detalhado |-> TRUE,
                         ret |-> r.ret]
           /\ q_result' = r.result
           /\ qr_out' =
                CASE r.ret = "None" -> [status |-> "404", qr_data |-> EmptyDict]
                  [] r.ret = "dict" ->
                        [status |-> "200", qr_data |-> qr_data_of(r.result)]
                  [] OTHER -> [status |-> "500", qr_data |-> EmptyDict]
    /\ pc' = "queried"
    /\ UNCHANGED <<caller, outcome, response, csvVars, ccVars, dbVars>>
    /\ UNCHANGED <<now, dropped>>
    /\ UNCHANGED <<grouperVars, otherVars>>

\* create_cluster called by the cluster routes, in this environment
NextStore ==
    \/ \E list \in SeqsUpTo(DirectItems, MaxItems) : DirectCreateCluster(list)
    \/ AddCluster
    \/ CreateTable
    \/ CreateTableFails
    \/ Tick
    \/ PrepareSkip
    \/ PrepareFromLocal
    \/ \E w \in Worlds : PrepareFromLookup(w)
    \/ BeginInserts
    \/ InsertRecord
    \/ InsertFails
    \/ CommitInserts
    \/ UpdateCount
    \/ DropTable
    \/ \E id \in ClusterIds, detalhado \in BOOLEAN : QueryCluster(id, detalhado)
    \/ \E id \in QrIds : GetQrcodeCluster(id)

SpecStore == Init /\ [][NextStore]_vars

-----------------------------------------------------------------------------
(* A query of another request while create_cluster runs. The query reads    *)
(* the master row and, in a later statement, the cluster's table; each      *)
(* statement sees what is committed when it runs.                           *)

\* the steps of the query change nothing but the query's own state
queryFrame ==
    /\ UNCHANGED <<pc, caller, outcome, response, csvVars, ccVars, dbVars>>
    /\ UNCHANGED <<now, dropped, qr_out>>
    /\ UNCHANGED <<grouperVars, otherVars>>

\* lines 280-304: the master row is read; `during` keeps the step
\* create_cluster was at
QueryReadMaster(id, detalhado) ==
    /\ q_call.ret = "none"
    /\ LET ret == IF id \notin DOMAIN clusters THEN "None"
                  ELSE IF clusters[id].total_imeis = 0 THEN "dict"
                  ELSE "fetching"
       IN  /\ q_call' = [cluster_id |-> id, detalhado |-> detalhado,
                         ret |-> ret, during |-> pc]
           /\ q_result' = IF id \in DOMAIN clusters
                          THEN ResultBase(id, clusters[id].total_imeis)
                          ELSE EmptyDict
    /\ queryFrame

\* lines 306-371: the rows of the table are read and the answer is built
QueryFetchRows ==
    /\ q_call.ret = "fetching"
    /\ LET id == q_call.cluster_id
       IN  IF TableName(id) \notin DOMAIN tables
           THEN /\ q_call' = [q_call EXCEPT !.ret = "raise: NameError"]
                /\ q_result' = EmptyDict
           ELSE LET rows == tables[TableName(id)]
                    fetched == OrderBy(rows, 1..Len(rows))
                IN  /\ q_call' = [q_call EXCEPT !.ret = "dict"]
                    /\ q_result' = ResultWithRows(id, fetched, q_call.detalhado)
    /\ queryFrame

\* the items of the lists create_cluster is given while it is queried
ConcurrentItems ==
    {PyStr("1"), PyStr(" 1"), PyStr(""),
     PyDict([k \in {"imei", "modelo"} |->
                IF k = "imei" THEN PyStr("2") ELSE PyStr("A")])}

NextConcurrent ==
    \/ \E list \in SeqsUpTo(ConcurrentItems, MaxItems) : DirectCreateCluster(list)
    \/ AddCluster
    \/ CreateTable
    \/ PrepareSkip
    \/ PrepareFromLocal
    \/ \E w \in Worlds : PrepareFromLookup(w)
    \/ BeginInserts
    \/ InsertRecord
    \/ InsertFails
    \/ CommitInserts
    \/ UpdateCount
    \/ \E id \in ClusterIds, detalhado \in BOOLEAN : QueryReadMaster(id, detalhado)
    \/ QueryFetchRows

SpecConcurrent == Init /\ [][NextConcurrent]_vars

-----------------------------------------------------------------------------
(* CsvService.process_csv_stream step by step, on streams of its own *)

\* a stream of n empty lines
RECURSIVE EmptyLines(_)
EmptyLines(n) == IF n = 0 THEN <<>> ELSE <<<<>>>> \o EmptyLines(n - 1)

\* number of empty lines put before a header
MaxLeading == 1

GrouperHeaders ==
    {<<"IMEI", "MODELO", "STATUS">>, <<" imei ", "Cor">>, <<"MODELO", "STATUS">>,
     <<"IMEI", "OBS", "OBSERVACAO">>, <<"IMEI", "MODELO", "MODELO">>,
     <<"IMEI", "Straße">>}

\* data lines: those of CsvRows, lines of blanks, a line longer than the
\* header; under a header with two columns of one name, lines that fill
\* both columns, one of them, or end before the second
GrouperRows(header) ==
    (IF header \in CsvHeaders THEN CsvRows(header) ELSE {}) \cup
        (CASE header = <<"IMEI", "MODELO", "STATUS">> ->
                {<<" ", "", " ">>, <<" ">>, <<"1", "B", "NO", "extra">>}
           [] header = <<" imei ", "Cor">> -> {<<" ", " ">>, <<>>, <<" 1", "azul">>}
           [] header = <<"IMEI", "OBS", "OBSERVACAO">> ->
                {<<"1", "a", "b">>, <<"1", "a", "">>, <<"2", "a">>}
           [] header = <<"IMEI", "MODELO", "MODELO">> ->
                {<<"1", "A", "B">>, <<"2", "A", "A">>}
           [] header = <<"IMEI", "Straße">> -> {<<"1", " x ">>}
           [] OTHER -> {})

\* the streams: empty lines only, or a header, maybe after empty lines,
\* followed by data lines
GrouperFiles ==
    {EmptyLines(n) : n \in 0..MaxLeading} \cup
    UNION {{EmptyLines(n) \o <<h>> \o rows :
                n \in 0..MaxLeading, rows \in SeqsUpTo(GrouperRows(h), MaxRows)} :
            h \in GrouperHeaders}

InitGrouper ==
    /\ InitPipeline
    /\ EncoderIdle
    /\ ClientIdle
    /\ csv_text \in GrouperFiles
    /\ reader_pos = 0
    /\ g_pc = "start"
    /\ g_groups = <<>>
    /\ g_err = ""

\* lines 138-155: csv_reader.fieldnames reads the first line of the stream,
\* and the header is checked
GrouperReadHeader ==
    /\ g_pc = "start"
    /\ reader_pos' = IF Len(csv_text) = 0 THEN 0 ELSE 1
    /\ IF HeaderError(csv_text) # ""
       THEN /\ g_pc' = "raised"
            /\ g_err' = HeaderError(csv_text)
       ELSE /\ g_pc' = "rows"
            /\ UNCHANGED g_err
    /\ UNCHANGED <<csv_text, g_groups>>
    /\ UNCHANGED <<pc, caller, outcome, response, csvVars, ccVars, dbVars>>
    /\ UNCHANGED <<storeEnvVars, otherVars>>

\* lines 178-239: the reader yields the next line and the loop handles it
GrouperReadRow ==
    /\ g_pc = "rows"
    /\ reader_pos < Len(csv_text)
    /\ reader_pos' = reader_pos + 1
    /\ g_groups' = GroupStep(csv_text[1], csv_text[reader_pos + 1], g_groups)
    /\ UNCHANGED <<csv_text, g_pc, g_err>>
    /\ UNCHANGED <<pc, caller, outcome, response, csvVars, ccVars, dbVars>>
    /\ UNCHANGED <<storeEnvVars, otherVars>>

\* lines 241-247: the stream is exhausted
GrouperFinish ==
    /\ g_pc = "rows"
    /\ reader_pos = Len(csv_text)
    /\ IF Len(g_groups) = 0
       THEN /\ g_pc' = "raised"
            /\ g_err' = "no_valid_imei"
       ELSE /\ g_pc' = "returned"
            /\ UNCHANGED g_err
    /\ UNCHANGED <<csv_text, reader_pos, g_groups>>
    /\ UNCHANGED <<pc, caller, outcome, response, csvVars, ccVars, dbVars>>
    /\ UNCHANGED <<storeEnvVars, otherVars>>

NextGrouper ==
    \/ GrouperReadHeader
    \/ GrouperReadRow
    \/ GrouperFinish

SpecGrouper == InitGrouper /\ [][NextGrouper]_vars

\* the run of process_csv_stream is over
GrouperOver == g_pc \in {"returned", "raised"}

\* what the run gave, in the shape of process_csv_stream's result
GrouperResult ==
    [err |-> g_err, groups |-> IF g_pc = "returned" THEN g_groups ELSE <<>>]

\* the steps give what process_csv_stream gives
StepsAgreeWithProcessCsvStream ==
    GrouperOver => GrouperResult = process_csv_stream(csv_text)

-----------------------------------------------------------------------------
(* generate_qr_code (routes/imei.py): the summary of a dict of data, its   *)
(* compact JSON text, and the QR symbol that carries it.  A symbol is      *)
(* [text, version, error_correction]; the PNG image drawn from it is left  *)
(* out.  modelos is an ordered dict: a sequence of [modelo, bucket] in the *)
(* order in which the models were first met.                               *)

RECURSIVE ToStr(_)
\* str(n) of a natural number
ToStr(n) ==
    IF n < 10 THEN Digits[n + 1]
    ELSE ToStr(n \div 10) \o Digits[(n % 10) + 1]

\* a datetime object
PyDatetime(n) == [t |-> "datetime", s |-> "", d |-> EmptyDict, n |-> n]

\* the characters of the model that UTF-8 writes with two bytes
TwoByteChars == {"ç", "ã", "Ç", "Ã", "ß"}

\* len(x.encode('utf-8'))
Utf8Len(x) ==
    Len(x) + Cardinality({i \in 1..Len(x) : SubSeq(x, i, i) \in TwoByteChars})

\* x[:n] of a str or a list
Prefix(x, n) == SubSeq(x, 1, IF Len(x) < n THEN Len(x) ELSE n)

ModeloIndex(modelos, modelo) ==
    IF \E i \in 1..Len(modelos) : modelos[i].modelo = modelo
    THEN CHOOSE i \in 1..Len(modelos) : modelos[i].modelo = modelo
    ELSE 0

\* lines 136-144: one imei_info is counted under its model
CountModel(modelos, imei_info) ==
    LET modelo == GetDefault(imei_info.d, "modelo", PyStr("Desconhecido"))
        imei == GetDefault(imei_info.d, "imei", PyStr(""))
        i == ModeloIndex(modelos, modelo)
    IN  IF i = 0
        THEN Append(modelos,
                [modelo |-> modelo,
                 bucket |-> [k \in {"quantidade", "imeis"} |->
                                IF k = "quantidade" THEN PyInt(1)
                                ELSE PyList(<<imei>>)]])
        ELSE [modelos EXCEPT ![i].bucket =
                [k \in {"quantidade", "imeis"} |->
                    IF k = "quantidade" THEN PyInt(@["quantidade"].n + 1)
                    ELSE PyList(Append(@["imeis"].l, imei))]]

RECURSIVE CountModels(_, _, _, _)
\* lines 135-144: the loop over data.get('imeis', []), from item lo to item
\* hi in order; the range is split in two, and the first half is computed
\* before the second is entered, to keep the evaluation shallow
CountModels(list, lo, hi, modelos) ==
    IF lo > hi THEN modelos
    ELSE IF lo = hi THEN CountModel(modelos, list[lo])
    ELSE LET mid == (lo + hi) \div 2
             first == CountModels(list, lo, mid, modelos)
         IN  IF Len(first) > 0
             THEN CountModels(list, mid + 1, hi, first)
             ELSE first

\* lines 147-148: at most 5 IMEIs are kept per model
LimitImeis(modelos) ==
    [i \in 1..Len(modelos) |->
        [modelos[i] EXCEPT !.bucket =
            [k \in DOMAIN @ |->
                IF k = "imeis" THEN PyList(Prefix(@[k].l, 5)) ELSE @[k]]]]

\* lines 165-166: modelos[modelo].pop('imeis', None) for every model
StripImeis(modelos) ==
    [i \in 1..Len(modelos) |->
        [modelos[i] EXCEPT !.bucket =
            [k \in DOMAIN @ \ {"imeis"} |-> @[k]]]]

\* the 'imeis' of data: data.get('imeis', [])
ImeisOf(data) == GetDefault(data, "imeis", PyList(<<>>)).l

\* lines 151-158: limited_data; key "modelos" holds the ordered dict
limited_data(data, modelos) ==
    [k \in {"id", "nome", "total_imeis", "data_criacao", "modelos",
            "total_modelos"} |->
        CASE k = "id" -> Get(data, "id")
          [] k = "nome" -> PyStr(Prefix(GetDefault(data, "nome", PyStr("")).s, 50))
          [] k = "total_imeis" -> PyInt(Len(ImeisOf(data)))
          [] k = "data_criacao" -> Get(data, "data_criacao")
          [] k = "modelos" -> modelos
          [] k = "total_modelos" -> PyInt(Len(modelos))]

Mensagem == "Lista de IMEIs muito grande, exibindo apenas contagem"

\* json.dumps of a str; the strings of the model need no escape
JsonString(x) == "\"" \o x \o "\""

\* json.dumps of None, a str or an int
JsonValue(v) ==
    CASE v.t = "none" -> "null"
      [] v.t = "str" -> JsonString(v.s)
      [] v.t = "int" -> ToStr(v.n)

RECURSIVE JsonArray(_, _)
\* the items of a list from item n on, with separator ','
JsonArray(l, n) ==
    IF n > Len(l) THEN ""
    ELSE JsonValue(l[n]) \o (IF n < Len(l) THEN "," ELSE "")
            \o JsonArray(l, n + 1)

\* json.dumps of one bucket, separators (',', ':')
JsonBucket(bucket) ==
    "{\"quantidade\":" \o JsonValue(bucket["quantidade"])
        \o (IF "imeis" \in DOMAIN bucket
            THEN ",\"imeis\":[" \o JsonArray(bucket["imeis"].l, 1) \o "]"
            ELSE "")
        \o "}"

\* one member of modelos; the key None is written null
JsonMember(entry) ==
    JsonString(IF entry.modelo.t = "none" THEN "null" ELSE entry.modelo.s)
        \o ":" \o JsonBucket(entry.bucket)

RECURSIVE JsonModelos(_, _, _)
\* the members of modelos from lo to hi with separator ','; the range is
\* split in two to keep the evaluation shallow
JsonModelos(modelos, lo, hi) ==
    IF lo > hi THEN ""
    ELSE IF lo = hi THEN JsonMember(modelos[lo])
    ELSE LET mid == (lo + hi) \div 2
         IN  JsonModelos(modelos, lo, mid) \o "," \o JsonModelos(modelos, mid + 1, hi)

\* json.dumps raises TypeError for an object it cannot write
JsonSerializable(v) == v.t \in {"none", "str", "int"}

\* json.dumps(limited_data, ensure_ascii=False, separators=(',', ':')),
\* with the key 'mensagem' of line 169 when notice is set
json_dumps(limited, notice) ==
    "{\"id\":" \o JsonValue(limited["id"])
        \o ",\"nome\":" \o JsonValue(limited["nome"])
        \o ",\"total_imeis\":" \o JsonValue(limited["total_imeis"])
        \o ",\"data_criacao\":" \o JsonValue(limited["data_criacao"])
        \o ",\"modelos\":{" \o JsonModelos(limited["modelos"], 1, Len(limited["modelos"])) \o "}"
        \o ",\"total_modelos\":" \o JsonValue(limited["total_modelos"])
        \o (IF notice THEN ",\"mensagem\":" \o JsonString(Mensagem) ELSE "")
        \o "}"

\* line 163: the size above which the lists of IMEIs are dropped
ByteBudget == 2953

\* data bits of a version 40 symbol at the error correction levels H and L
\* (1276 and 2956 data codewords)
QrDataBits(error_correction) ==
    IF error_correction = "H" THEN 10208 ELSE 23648

\* bits of a text written in byte mode in a version 40 symbol: 4 of mode,
\* 16 of length, 8 per byte.  The texts of the model have no run of 20
\* digits or upper-case letters, which the library would write more densely
QrBitsOf(text) == 4 + 16 + 8 * Utf8Len(text)

\* bytes a symbol of versions 1 to 6 holds at level L
QrBytesAtL == <<17, 32, 53, 78, 106, 134>>

\* best_fit: the first version from 1 whose capacity at level L holds text
BestFitL(text) ==
    CHOOSE v \in 1..Len(QrBytesAtL) :
        /\ Utf8Len(text) <= QrBytesAtL[v]
        /\ \A u \in 1..(v - 1) : Utf8Len(text) > QrBytesAtL[u]

\* the message of the DataOverflowError that qr.make(fit=False) raises
OverflowMessage(text) ==
    "Code length overflow. Data size (" \o ToStr(QrBitsOf(text))
        \o ") > size available (" \o ToStr(QrDataBits("H")) \o ")"

\* the error correction level of line 175
ErrorCorrection == "H"

\* what lines 133-161 raise: "" when they raise nothing
SummaryError(data) ==
    IF GetDefault(data, "nome", PyStr("")).t # "str"
    THEN "'NoneType' object is not subscriptable"
    ELSE IF ~JsonSerializable(Get(data, "data_criacao"))
    THEN "Object of type datetime is not JSON serializable"
    ELSE ""

\* the 15 digits of the n-th IMEI
ImeiOf(n) == SubSeq("00000000000000", 1, 15 - Len(ToStr(n))) \o ToStr(n)

\* an imei_info of model number m
InfoOf(n, m) ==
    PyDict([k \in {"imei", "modelo"} |->
                IF k = "imei" THEN PyStr(ImeiOf(n)) ELSE PyStr("M" \o ToStr(m))])

\* the data of a cluster of name nome with n records spread over m models
SummaryNamed(n, m, nome) ==
    [k \in {"id", "nome", "data_criacao", "imeis"} |->
        CASE k = "id" -> PyStr("c-1")
          [] k = "nome" -> PyStr(nome)
          [] k = "data_criacao" -> PyStr(isoformat(0))
          [] k = "imeis" -> PyList([i \in 1..n |-> InfoOf(i, i % m)])]

Summary(n, m) == SummaryNamed(n, m, "Cluster do arquivo")

\* numbers of records and of models of the clusters encoded
SummaryShapes ==
    {<<0, 1>>, <<1, 1>>, <<2, 1>>, <<2, 2>>, <<5, 1>>, <<6, 1>>, <<7, 2>>,
     <<12, 2>>, <<10, 10>>, <<20, 20>>, <<22, 22>>, <<23, 23>>, <<30, 30>>,
     <<50, 50>>, <<56, 56>>, <<60, 60>>, <<150, 30>>, <<180, 30>>,
     <<500, 5>>, <<500, 40>>, <<500, 100>>, <<500, 250>>, <<500, 500>>}

RECURSIVE Repeat(_, _)
\* x * n
Repeat(x, n) ==
    IF n = 0 THEN ""
    ELSE IF n % 2 = 0 THEN LET half == Repeat(x, n \div 2) IN half \o half
    ELSE x \o Repeat(x, n - 1)

\* the arguments of generate_qr_code: summaries of clusters, the result of
\* a single lookup (no 'imeis'), an imei_info without 'modelo' and one whose
\* modelo is None, a long name, a name that is None, a creation date that
\* is a datetime object, a model with a name of 3000 letters; the texts of
\* the named summaries are 1273, 1274, 2953 and 2954 bytes long
EncoderInputs ==
    {Summary(sh[1], sh[2]) : sh \in SummaryShapes}
    \cup {SummaryNamed(22, 22, Repeat("a", 50 - n) \o Repeat("ã", n)) : n \in {4, 5}}
    \cup {SummaryNamed(55, 55, Repeat("a", 50 - n) \o Repeat("ã", n)) : n \in {1, 2}}
    \cup {[k \in {"imei", "modelo"} |-> PyStr("1")]}
    \cup {With(Summary(0, 1), "imeis",
               PyList(<<PyDict([k \in {"imei"} |-> PyStr("1")]),
                        PyDict([k \in {"imei", "modelo"} |->
                                    IF k = "imei" THEN PyStr("2") ELSE PyNone])>>))}
    \cup {With(Summary(1, 1), "nome", PyStr(Repeat("Ação ", 12)))}
    \cup {With(Summary(1, 1), "nome", PyNone)}
    \cup {With(Summary(1, 1), "data_criacao", PyDatetime(0))}
    \cup {With(Summary(0, 1), "imeis",
               PyList(<<PyDict([k \in {"imei", "modelo"} |->
                                    IF k = "imei" THEN PyStr("1")
                                    ELSE PyStr(Repeat("x", 3000))])>>))}

InitEncoder ==
    /\ InitPipeline
    /\ GrouperIdle
    /\ ClientIdle
    /\ e_pc = "start"
    /\ e_data \in EncoderInputs
    /\ e_modelos = <<>>
    /\ e_json = ""
    /\ e_exc = ""
    /\ e_symbol = NoSymbol

\* lines 133-161: the models are counted, at most 5 IMEIs kept for each,
\* and the summary is written as compact JSON
EncSummarize ==
    /\ e_pc = "start"
    /\ IF SummaryError(e_data) # ""
       THEN /\ e_pc' = "except"
            /\ e_exc' = SummaryError(e_data)
            /\ UNCHANGED <<e_modelos, e_json>>
       ELSE LET modelos == LimitImeis(CountModels(ImeisOf(e_data), 1, Len(ImeisOf(e_data)), <<>>))
            IN  /\ e_pc' = "serialized"
                /\ e_modelos' = modelos
                /\ e_json' = json_dumps(limited_data(e_data, modelos), FALSE)
                /\ UNCHANGED e_exc
    /\ UNCHANGED <<e_data, e_symbol>>
    /\ UNCHANGED <<pc, caller, outcome, response, csvVars, ccVars, dbVars>>
    /\ UNCHANGED <<storeEnvVars, grouperVars, clientVars>>

\* lines 163-171: a text above the budget is written again without the
\* lists of IMEIs and with the notice
EncCheckBudget ==
    /\ e_pc = "serialized"
    /\ e_pc' = "checked"
    /\ IF Utf8Len(e_json) > ByteBudget
       THEN LET modelos == StripImeis(e_modelos)
            IN  /\ e_modelos' = modelos
                /\ e_json' = json_dumps(limited_data(e_data, modelos), TRUE)
       ELSE UNCHANGED <<e_modelos, e_json>>
    /\ UNCHANGED <<e_data, e_exc, e_symbol>>
    /\ UNCHANGED <<pc, caller, outcome, response, csvVars, ccVars, dbVars>>
    /\ UNCHANGED <<storeEnvVars, grouperVars, clientVars>>

\* lines 174-190: the symbol of version 40 is made without fitting, and
\* the image is returned; a text the symbol cannot hold raises
EncMakeQr ==
    /\ e_pc = "checked"
    /\ IF QrBitsOf(e_json) > QrDataBits(ErrorCorrection)
       THEN /\ e_pc' = "except"
            /\ e_exc' = OverflowMessage(e_json)
            /\ UNCHANGED e_symbol
       ELSE /\ e_pc' = "returned"
            /\ e_symbol' = [text |-> e_json, version |-> 40,
                            error_correction |-> ErrorCorrection]
            /\ UNCHANGED e_exc
    /\ UNCHANGED <<e_data, e_modelos, e_json>>
    /\ UNCHANGED <<pc, caller, outcome, response, csvVars, ccVars, dbVars>>
    /\ UNCHANGED <<storeEnvVars, grouperVars, clientVars>>

\* the text of the error symbol, line 200
ErrorText(exc) == "Erro: " \o Prefix(exc, 100)

\* EncFallback raising the exception again instead of answering
EncFallback_Raises ==
    /\ e_pc = "except"
    /\ e_pc' = "raised"
    /\ UNCHANGED <<e_data, e_modelos, e_json, e_exc, e_symbol>>
    /\ UNCHANGED <<pc, caller, outcome, response, csvVars, ccVars, dbVars>>
    /\ UNCHANGED <<storeEnvVars, grouperVars, clientVars>>

\* lines 192-205: the handler returns a symbol that carries the error
EncFallback ==
    /\ e_pc = "except"
    /\ e_pc' = "returned"
    /\ e_symbol' = [text |-> ErrorText(e_exc),
                    version |-> BestFitL(ErrorText(e_exc)),
                    error_correction |-> "L"]
    /\ UNCHANGED <<e_data, e_modelos, e_json, e_exc>>
    /\ UNCHANGED <<pc, caller, outcome, response, csvVars, ccVars, dbVars>>
    /\ UNCHANGED <<storeEnvVars, grouperVars, clientVars>>

NextEncoder ==
    \/ EncSummarize
    \/ EncCheckBudget
    \/ EncMakeQr
    \/ EncFallback

SpecEncoder == InitEncoder /\ [][NextEncoder]_vars

-----------------------------------------------------------------------------
(* The routes' lookup client (routes/imei.py, line 30): one                *)
(* ConsultaImeiService for the module, used by every request.  Two         *)
(* requests look ids up one after the other, their steps interleaved:      *)
(* POST /consultar (consultar_multiplos_imeis) and the loop over the       *)
(* groups of processar_csv.  The results of a request are its own.         *)

\* ids a request looks up
MaxLookups == 2

\* what no step of a request of the lookup client changes
clientFrame ==
    <<pc, caller, outcome, response, imei_groups, gi, respostas, mundos,
      imeis_para_cluster, ccVars, dbVars, storeEnvVars, grouperVars,
      encoderVars>>

\* one id is done: the request takes the next one, or leaves the loop;
\* consultar_multiplos_imeis has a finally clause to run (line 153)
Advance(req) ==
    [req EXCEPT !.left = @ - 1,
                !.pc = IF req.left > 1 THEN "auth"
                       ELSE IF req.kind = "consultar" THEN "close"
                       ELSE "done"]

\* routes/imei.py line 118 or line 361: a request arrives with n ids
ReqArrive(r, kind, n) ==
    /\ reqs[r].kind = "none"
    /\ reqs' = [reqs EXCEPT ![r] = [kind |-> kind, pc |-> "auth", left |-> n,
                                    resultados |-> <<>>]]
    /\ UNCHANGED <<route_autenticado, session, clientFrame>>

\* consultar_imei.py lines 25-26: autenticar reads the flag
ReqCheck(r) ==
    /\ reqs[r].pc = "auth"
    /\ reqs' = [reqs EXCEPT ![r].pc =
                    IF route_autenticado THEN "query" ELSE "login"]
    /\ UNCHANGED <<route_autenticado, session, clientFrame>>

\* lines 28-69: the login; its test of line 57 finds a cookie that another
\* login has put in the session.  A failure closes the session, resets the
\* flag, and consultar_imei returns a dict with 'erro' (lines 140-144)
ReqLogin(r, auth) ==
    /\ reqs[r].pc = "login"
    /\ IF auth = "ok" \/ (auth = "no_cookie" /\ session.cookie)
       THEN /\ route_autenticado' = TRUE
            /\ session' = [cookie |-> TRUE, pool |-> "open"]
            /\ reqs' = [reqs EXCEPT ![r].pc = "query"]
       ELSE /\ route_autenticado' = FALSE
            /\ session' = [session EXCEPT !.pool = "closed"]
            /\ reqs' = [reqs EXCEPT ![r] =
                    Advance([@ EXCEPT !.resultados = Append(@, "erro: 401")])]
    /\ UNCHANGED clientFrame

\* lines 98-144: the inventory request goes through the session
ReqQuery(r, query) ==
    /\ reqs[r].pc = "query"
    /\ session' = [session EXCEPT !.pool = "open"]
    /\ reqs' = [reqs EXCEPT ![r] =
            Advance([@ EXCEPT !.resultados =
                Append(@, IF query = "200" THEN "dados" ELSE "erro: " \o query)])]
    /\ UNCHANGED <<route_autenticado, clientFrame>>

\* lines 153-155: consultar_multiplos_imeis closes the session
ReqClose(r) ==
    /\ reqs[r].pc = "close"
    /\ session' = [session EXCEPT !.pool = "closed"]
    /\ reqs' = [reqs EXCEPT ![r].pc = "done"]
    /\ UNCHANGED <<route_autenticado, clientFrame>>

NextClients ==
    \/ \E r \in Requests, kind \in {"consultar", "csv"}, n \in 1..MaxLookups :
            ReqArrive(r, kind, n)
    \/ \E r \in Requests : ReqCheck(r)
    \/ \E r \in Requests, auth \in AuthOutcomes : ReqLogin(r, auth)
    \/ \E r \in Requests, query \in QueryOutcomes : ReqQuery(r, query)
    \/ \E r \in Requests : ReqClose(r)

SpecClients == Init /\ [][NextClients]_vars

-----------------------------------------------------------------------------
(* Notions the properties use *)

\* the committed rows of the table of the cluster being created
StoredRows ==
    IF cluster_id # "" /\ TableName(cluster_id) \in DOMAIN tables
    THEN tables[TableName(cluster_id)]
    ELSE <<>>

\* the record that create_cluster hands to the INSERT for prepared record i
RecordToInsert(i) == BeforeInsert(imeis_to_insert[i])

IsStored(imei_data) ==
    \E n \in 1..Len(StoredRows) : StoredRows[n] = imei_data

\* the population pass of create_cluster is over, by return or by raise
PopulationOver ==
    pc = "done" /\ cluster_id # "" /\ TableName(cluster_id) \in DOMAIN tables

-----------------------------------------------------------------------------
(* C1 - C3: the population of a cluster's table *)

\* C1: when exactly one record's INSERT fails during the population of a
\* cluster, every other record of the batch is in the cluster's table
\* afterwards.
C1_SiblingsStoredDespiteFailure ==
    (PopulationOver /\ Len(insert_errors) = 1) =>
        \A i \in 1..Len(imeis_to_insert) :
            i # ii => IsStored(RecordToInsert(i))

\* C2: two records with the same imei inserted in one population pass give
\* exactly one stored row, the one of the record inserted first, and one
\* duplicate-key error.
C2_FirstOfDuplicatesStored ==
    (/\ PopulationOver
     /\ Len(imeis_to_insert) = 2
     /\ imeis_to_insert[1]["imei"] = imeis_to_insert[2]["imei"]) =>
        /\ StoredRows = <<RecordToInsert(1)>>
        /\ Len(insert_errors) = 1

\* the rows of a table together with those the open transaction wrote to it
RowsOf(name) ==
    IF name = TableName(cluster_id) THEN tables[name] \o tx ELSE tables[name]

StatusFilled(row) ==
    /\ "status" \in DOMAIN row
    /\ row["status"].t # "none"
    /\ row["status"].t = "str" => row["status"].s # ""

\* C3: in every state, no two rows of a cluster table have the same imei
\* and the status of every row is neither None nor the empty string,
\* whether the row comes from a dict with local fields, a dict without, or
\* a bare id string.
C3_UniqueImeiAndStatusFilled ==
    \A name \in DOMAIN tables :
        /\ \A i, j \in 1..Len(RowsOf(name)) :
              RowsOf(name)[i]["imei"] = RowsOf(name)[j]["imei"] => i = j
        /\ \A i \in 1..Len(RowsOf(name)) : StatusFilled(RowsOf(name)[i])

\* two rows are committed: one from a dict whose local status strips to the
\* empty string, one from a bare id string
C3_Witness ==
    /\ PopulationOver
    /\ outcome = "201"
    /\ Len(StoredRows) = 2
    /\ \E i, j \in 1..Len(imeis) :
          /\ imeis[i].t = "dict"
          /\ HasLocalFields(imeis[i].d)
          /\ Strip(Str(Get(imeis[i].d, "status"))) = ""
          /\ Get(imeis[i].d, "status").t = "str"
          /\ imeis[j].t = "str"

-----------------------------------------------------------------------------
(* C4 - C10: reconciliation of the CSV rows with the lookup's answer *)

\* the fields a record shares with the lookup's answer
CanonicalFields ==
    {"modelo", "status", "fabricante", "tipo_ativo", "empresa",
     "numero_chamado", "localizacao"}

\* the Source Row of group g: the cleaned row of its first line
LocalRow(g) == imei_groups[g].registros[1]["dados_brutos"].d

\* the text the Source Row supplies for a field, "" when it has none
LocalValue(g, field) ==
    IF field \in DOMAIN LocalRow(g) THEN Str(LocalRow(g)[field]) ELSE ""

\* the lookup of group g returned a record, not an error marker
LookupOk(g) == "erro" \notin DOMAIN respostas[g]

\* the value the lookup's answer gives to a field
ExternalValue(g, field) == Get(respostas[g], field)

\* the raw record the external service returned for group g
ExternalRaw(g) == mundos[g].w.body.d["data"].d["0"]

\* the rows, committed or written by the open transaction, of the cluster
\* being created
ClusterRows == StoredRows \o tx

\* the group a row of the pipeline's cluster comes from
GroupOfRow(row) ==
    CHOOSE g \in 1..Len(respostas) : PyStr(imei_groups[g].imei) = row["imei"]

\* C4: when the lookup of an id succeeds, every field whose local value is
\* non-empty and differs from the external value is stored with the local
\* value; a non-empty local status survives the merge and the default-fill
\* steps of create_cluster.
C4_NonEmptyLocalFieldStored ==
    caller = "csv" =>
        \A n \in 1..Len(ClusterRows) :
            LET row == ClusterRows[n]
                g == GroupOfRow(row)
            IN  LookupOk(g) =>
                  \A field \in CanonicalFields \cup {"observacao"} :
                     (/\ LocalValue(g, field) # ""
                      /\ PyStr(LocalValue(g, field)) # ExternalValue(g, field))
                        => row[field] = PyStr(LocalValue(g, field))

\* a committed row whose local model and status both differ from the ones
\* the lookup returned
C4_Witness ==
    /\ caller = "csv"
    /\ PopulationOver
    /\ \E n \in 1..Len(StoredRows) :
          LET g == GroupOfRow(StoredRows[n])
          IN  /\ LookupOk(g)
              /\ LocalValue(g, "modelo") = "A"
              /\ ExternalValue(g, "modelo") = PyStr("M9")
              /\ LocalValue(g, "status") = "OK"
              /\ ExternalValue(g, "status") = PyStr("ATIVO")
              /\ StoredRows[n]["modelo"] = PyStr("A")
              /\ StoredRows[n]["status"] = PyStr("OK")

\* C5: when the lookup of an id succeeds and a canonical field is empty or
\* absent in the local Source Row, the merged record has the externally
\* fetched value of that field.
C5_EmptyLocalFieldTakesExternal ==
    \A g \in 1..Len(imeis_para_cluster) :
        LookupOk(g) =>
            \A field \in CanonicalFields :
                LocalValue(g, field) = "" =>
                    imeis_para_cluster[g][field] = ExternalValue(g, field)

\* neither the Source Row nor the lookup of group g gives a non-empty status
NoStatusAnywhere(g) ==
    /\ LocalValue(g, "status") = ""
    /\ ~LookupOk(g) \/ ~Truthy(ExternalValue(g, "status"))

\* C6: when neither the local row nor the lookup supplies a non-empty
\* status, the stored status is exactly the default 'DESCONHECIDO'.
C6_DefaultStatusStored ==
    caller = "csv" =>
        \A n \in 1..Len(ClusterRows) :
            NoStatusAnywhere(GroupOfRow(ClusterRows[n])) =>
                ClusterRows[n]["status"] = PyStr("DESCONHECIDO")

\* committed rows with the default status: one whose lookup succeeded
\* without a status, one whose lookup failed
C6_Witness ==
    /\ caller = "csv"
    /\ PopulationOver
    /\ \E n, m \in 1..Len(StoredRows) :
          /\ NoStatusAnywhere(GroupOfRow(StoredRows[n]))
          /\ LookupOk(GroupOfRow(StoredRows[n]))
          /\ NoStatusAnywhere(GroupOfRow(StoredRows[m]))
          /\ ~LookupOk(GroupOfRow(StoredRows[m]))
          /\ StoredRows[n]["status"] = PyStr("DESCONHECIDO")

\* the record holds the fields of the Source Row's grouper record and none
\* of the lookup
BuiltFromLocalAlone(g) ==
    LET dados_csv == imei_groups[g].registros[1]
    IN  \A k \in DOMAIN imeis_para_cluster[g] :
            k \in DOMAIN dados_csv => imeis_para_cluster[g][k] = dados_csv[k]

HasErrorAnnotation(raw) ==
    /\ raw.t = "dict"
    /\ \E k \in {"erro_consulta", "erro_processamento"} : k \in DOMAIN raw.d

\* C7: when the lookup fails or returns an error marker, the record is built
\* from the local fields alone and its raw_fields (dados_brutos, the audit
\* payload persisted with the record) holds an error annotation.
C7_ErrorAnnotationInRawFields ==
    \A g \in 1..Len(imeis_para_cluster) :
        ~LookupOk(g) =>
            /\ BuiltFromLocalAlone(g)
            /\ HasErrorAnnotation(Get(imeis_para_cluster[g], "dados_brutos"))

\* the lookup of group g met a fault: the login failed, the request raised
\* or was answered with another status than 200, the body was not JSON,
\* listed no record, or listed something that is not a record
LookupFault(g) ==
    LET w == mundos[g].w
    IN  \/ ~mundos[g].autenticado /\ w.auth # "ok"
        \/ w.query # "200"
        \/ "data" \notin DOMAIN w.body.d
        \/ DOMAIN w.body.d["data"].d = {}
        \/ w.body.d["data"].d["0"].t # "dict"

\* C8: whatever way the lookup fails, the loop adds for that id a record
\* built from the local data with an error annotation, handles every
\* remaining id, and the request does not end with the lookup's error.
C8_LookupFaultNeverPropagates ==
    caller = "csv" =>
        /\ Len(imeis_para_cluster) = gi - 1
        /\ \A g \in 1..Len(imeis_para_cluster) :
              /\ imeis_para_cluster[g]["imei"] = PyStr(imei_groups[g].imei)
              /\ LookupFault(g) =>
                    /\ BuiltFromLocalAlone(g)
                    /\ Truthy(Get(imeis_para_cluster[g], "erro_consulta"))
        /\ (pc # "reconcile" /\ Len(imei_groups) > 0) =>
                Len(imeis_para_cluster) = Len(imei_groups)
        /\ (pc = "done" /\ Len(imei_groups) > 0 /\ insert_errors = <<>>) =>
                outcome = "200"

\* a request that ended well although the lookup failed for its first id
\* and succeeded for its second
C8_Witness ==
    /\ caller = "csv"
    /\ pc = "done"
    /\ outcome = "200"
    /\ Len(imeis_para_cluster) = 2
    /\ LookupFault(1)
    /\ ~LookupFault(2)
    /\ Len(StoredRows) = 2

\* C9: when the lookup succeeds, the external raw record is kept verbatim
\* under dados_brutos in the reconciled record and in the stored row, and
\* the full answer under resposta_completa in the reconciled record; the
\* local dados_brutos never replaces it.
C9_ExternalRawKeptVerbatim ==
    caller = "csv" =>
        /\ \A g \in 1..Len(imeis_para_cluster) :
              (~LookupFault(g)) =>
                  /\ imeis_para_cluster[g]["dados_brutos"] = ExternalRaw(g)
                  /\ imeis_para_cluster[g]["resposta_completa"] = mundos[g].w.body
        /\ \A n \in 1..Len(ClusterRows) :
              (~LookupFault(GroupOfRow(ClusterRows[n]))) =>
                  ClusterRows[n]["dados_brutos"] =
                        ExternalRaw(GroupOfRow(ClusterRows[n]))

\* a committed row of an id whose lookup succeeded and whose Source Row had
\* its own values
C9_Witness ==
    /\ caller = "csv"
    /\ PopulationOver
    /\ \E n \in 1..Len(StoredRows) :
          LET g == GroupOfRow(StoredRows[n])
          IN  /\ ~LookupFault(g)
              /\ LocalValue(g, "modelo") # ""
              /\ imei_groups[g].registros[1]["dados_brutos"] # ExternalRaw(g)
              /\ StoredRows[n]["dados_brutos"] = PyDict(ItemFull)

\* the Source Row can be rebuilt from a raw_fields value: it is that value,
\* or the value of one of its keys, or all its entries are entries of it
LocalRecoverable(raw, g) ==
    /\ raw.t = "dict"
    /\ \/ raw.d = LocalRow(g)
       \/ \E k \in DOMAIN raw.d : raw.d[k] = PyDict(LocalRow(g))
       \/ \A k \in DOMAIN LocalRow(g) :
              k \in DOMAIN raw.d /\ raw.d[k] = LocalRow(g)[k]

\* C10: the raw_fields (dados_brutos) of every reconciled record and of
\* every stored row lets one rebuild the local Source Row, also after a
\* successful lookup.
C10_LocalRowRecoverable ==
    caller = "csv" =>
        /\ \A g \in 1..Len(imeis_para_cluster) :
              LocalRecoverable(Get(imeis_para_cluster[g], "dados_brutos"), g)
        /\ \A n \in 1..Len(ClusterRows) :
              LocalRecoverable(ClusterRows[n]["dados_brutos"],
                               GroupOfRow(ClusterRows[n]))

-----------------------------------------------------------------------------
(* C11 - C12: groups of several rows, and what the request reports *)

\* C11: the reconciled record of a group takes its local field values from
\* the first row of the group only: every field of the first row's record is
\* in the reconciled record with the first row's value (the raw row too when
\* the lookup failed), and no value by which a later row differs from the
\* first appears in it.
C11_FirstRowIsLocalInput ==
    \A g \in 1..Len(imeis_para_cluster) :
        LET regs == imei_groups[g].registros
            rec == imeis_para_cluster[g]
        IN  /\ \A k \in DOMAIN regs[1] \ {"dados_brutos"} : rec[k] = regs[1][k]
            /\ ~LookupOk(g) => rec["dados_brutos"] = regs[1]["dados_brutos"]
            /\ \A r \in 2..Len(regs) :
                  \A k \in DOMAIN regs[r] \ {"dados_brutos"} :
                      regs[r][k] # regs[1][k] => rec[k] # regs[r][k]

\* a group of two rows, (A, OK) then (blank, blank), whose lookup failed:
\* the reconciled record has model A and status OK
C11_Witness ==
    \E g \in 1..Len(imeis_para_cluster) :
        LET regs == imei_groups[g].registros
        IN  /\ Len(regs) = 2
            /\ ~LookupOk(g)
            /\ regs[1]["modelo"] = PyStr("A")
            /\ regs[2]["modelo"] = PyStr("")
            /\ regs[2]["status"] = PyStr(DefaultStatus)
            /\ imeis_para_cluster[g]["modelo"] = PyStr("A")
            /\ imeis_para_cluster[g]["status"] = PyStr("OK")
            /\ Truthy(Get(imeis_para_cluster[g], "erro_consulta"))

\* the per-record errors of a request: the lookups that returned an error
\* marker and the INSERTs that raised
PerRecordErrors ==
    Cardinality({g \in 1..Len(respostas) : ~LookupOk(g)}) + Len(insert_errors)

\* a body reports n errors as a summary: one of its entries is the count n
\* and another is a list of n elements
ReportsErrors(body, n) ==
    \E kc, kl \in DOMAIN body :
        /\ kc # kl
        /\ body[kc] = PyInt(n)
        /\ body[kl].t = "dict"
        /\ Cardinality(DOMAIN body[kl].d) = n

\* C12: an ingestion that was asked to create a cluster and met a lookup
\* error or a storage error for some record still ends with 200, and its
\* answer reports those errors as a count and a list.
C12_ErrorsReportedAsSummary ==
    (/\ caller = "csv"
     /\ pc = "done"
     /\ Len(imeis) > 0
     /\ PerRecordErrors > 0) =>
        /\ outcome = "200"
        /\ ReportsErrors(response, PerRecordErrors)

-----------------------------------------------------------------------------
(* C13 - C16: the Cluster Store *)

\* the cluster of the last query has a master row that counts records, and
\* no table
CountedButNoTable ==
    /\ q_call.cluster_id \in DOMAIN clusters
    /\ clusters[q_call.cluster_id].total_imeis > 0
    /\ TableName(q_call.cluster_id) \notin DOMAIN tables

\* C13: the query of a cluster whose master row exists with a non-zero
\* total_imeis and whose table is missing returns, without raising, an
\* answer with no record and a count of zero.
C13_MissingTableGivesEmptyResult ==
    (q_call.ret # "none" /\ CountedButNoTable) =>
        /\ q_call.ret = "dict"
        /\ q_result["imeis"] = PyList(<<>>)
        /\ q_result["total_imeis"] = PyInt(0)

\* C14: whenever no create_cluster call is running, also after calls that
\* failed part-way, every cluster of the master table has its table, the
\* one named after its id, and every cluster table belongs to a cluster.
C14_EveryClusterHasItsTable ==
    (pc \in {"idle", "done", "queried"} /\ ~dropped) =>
        /\ \A id \in DOMAIN clusters : TableName(id) \in DOMAIN tables
        /\ \A name \in DOMAIN tables :
              \E id \in DOMAIN clusters : name = TableName(id)

\* C15: when create_cluster has returned, total_imeis of the cluster is the
\* number of rows of its table, whatever items the list held.
C15_CountEqualsStoredRows ==
    (pc = "done" /\ outcome \in {"200", "201"} /\ cluster_id # "") =>
        clusters[cluster_id].total_imeis = Len(StoredRows)

\* a list of two items, the first of which raised while it was prepared:
\* one row is stored and counted
C15_Witness ==
    /\ pc = "done"
    /\ outcome = "201"
    /\ Len(imeis) = 2
    /\ ImeiRaises(imeis[1])
    /\ Len(StoredRows) = 1
    /\ clusters[cluster_id].total_imeis = 1

\* the stored row of the queried cluster that has this imei
RowOfImei(imei) ==
    LET rows == tables[TableName(q_call.cluster_id)]
    IN  rows[CHOOSE n \in 1..Len(rows) : rows[n]["imei"] = imei]

\* the last query returned the records of a cluster's table
QueryReturnedRows ==
    /\ q_call.ret = "dict"
    /\ q_call.cluster_id \in DOMAIN clusters
    /\ clusters[q_call.cluster_id].total_imeis > 0

\* the ids of the answer are those of the table, later insertion time first
\* and, within one insertion time, smaller id first
InClaimedOrder ==
    LET ids == q_result["imeis"].l
        rows == tables[TableName(q_call.cluster_id)]
    IN  /\ Len(ids) = Len(rows)
        /\ \A n \in 1..Len(rows) : \E i \in 1..Len(ids) : ids[i] = rows[n]["imei"]
        /\ \A i, j \in 1..Len(ids) :
              i < j =>
                LET a == RowOfImei(ids[i])
                    b == RowOfImei(ids[j])
                IN  \/ a["data_inclusao"].n > b["data_inclusao"].n
                    \/ /\ a["data_inclusao"].n = b["data_inclusao"].n
                       /\ StrLess(ids[i].s, ids[j].s)

DefaultFields == {"imei", "modelo", "status", "fabricante"}

\* the fields the claim says a detailed query adds: audit, location, ticket
\* and timestamps
DetailFields ==
    {"dados_brutos", "localizacao", "numero_chamado", "data_inclusao",
     "data_atualizacao"}

\* every record of the answer has the default fields, and no other unless
\* the query is detailed, and then the audit, location, ticket and
\* timestamp fields too
ProjectedAsClaimed ==
    \A imei \in DOMAIN q_result["detalhes_imeis"].d :
        LET fields == DOMAIN q_result["detalhes_imeis"].d[imei].d
        IN  /\ DefaultFields \subseteq fields
            /\ ~q_call.detalhado => fields = DefaultFields
            /\ q_call.detalhado => DetailFields \subseteq fields

\* C16: the query of a cluster returns the records ordered by insertion
\* time descending, then by id ascending, with exactly the default fields
\* (id, model, status, manufacturer), to which a detailed query adds the
\* audit, location, ticket and timestamp fields.
C16_OrderedAndProjected ==
    QueryReturnedRows => (InClaimedOrder /\ ProjectedAsClaimed)

-----------------------------------------------------------------------------
(* C17 - C20: the Stream Grouper *)

\* a header name of the stream normalizes (trim, upper case) to IMEI
HasImeiHeader ==
    /\ Len(csv_text) > 0
    /\ \E i \in 1..Len(csv_text[1]) : Upper(Strip(csv_text[1][i])) = "IMEI"

\* C17: when no header name normalizes to IMEI, the grouper fails before it
\* reads or groups a data line, and with the missing-IMEI-column error when
\* the header line has names at all.
C17_MissingImeiFailsFirst ==
    (g_pc # "start" /\ ~HasImeiHeader) =>
        /\ g_pc = "raised"
        /\ reader_pos <= 1
        /\ g_groups = <<>>
        /\ (Len(csv_text) > 0 /\ Len(csv_text[1]) > 0) => g_err = "missing_imei"

\* a stream with a header without IMEI and two data lines: the error is
\* raised when only the header has been read
C17_Witness ==
    /\ g_pc = "raised"
    /\ g_err = "missing_imei"
    /\ csv_text[1] = <<"MODELO", "STATUS">>
    /\ Len(csv_text) = 3
    /\ reader_pos = 1

\* every field of the line is empty or blank
BlankRow(row) == \A i \in 1..Len(row) : Strip(row[i]) = ""

RECURSIVE DataWithoutBlank(_, _)
\* the data lines from line n on that are not blank
DataWithoutBlank(lines, n) ==
    IF n > Len(lines) THEN <<>>
    ELSE (IF BlankRow(lines[n]) THEN <<>> ELSE <<lines[n]>>)
            \o DataWithoutBlank(lines, n + 1)

\* the stream without its blank data lines
WithoutBlankRows(lines) ==
    IF Len(lines) = 0 THEN lines
    ELSE <<lines[1]>> \o DataWithoutBlank(lines, 2)

\* C18: a data line whose fields are all empty or blank is in no group, and
\* a stream gives the same result (keys, rows, order of the rows, or error)
\* as the stream without its blank data lines.
C18_BlankRowsChangeNothing ==
    GrouperOver =>
        /\ GrouperResult = process_csv_stream(WithoutBlankRows(csv_text))
        /\ \A g \in 1..Len(g_groups) :
              \A r \in 1..Len(g_groups[g].registros) :
                  LET raw == g_groups[g].registros[r]["dados_brutos"].d
                  IN  \E k \in DOMAIN raw : raw[k] # PyStr("")

\* a stream whose first data line holds blanks only and whose second has an
\* IMEI: one group
C18_Witness ==
    /\ g_pc = "returned"
    /\ Len(csv_text) = 3
    /\ BlankRow(csv_text[2])
    /\ \E i \in 1..Len(csv_text[2]) : csv_text[2][i] = " "
    /\ Len(g_groups) = 1

\* the column of the IMEI header
ImeiColumn(header) ==
    CHOOSE i \in 1..Len(header) : Upper(Strip(header[i])) = "IMEI"

\* the trimmed id of a data line
IdOf(header, row) ==
    IF ImeiColumn(header) <= Len(row)
    THEN Strip(row[ImeiColumn(header)])
    ELSE ""

RECURSIVE RowsOfId(_, _, _)
\* the data lines from line n on whose trimmed id is id, in arrival order
RowsOfId(lines, n, id) ==
    IF n > Len(lines) THEN <<>>
    ELSE (IF IdOf(lines[1], lines[n]) = id THEN <<lines[n]>> ELSE <<>>)
            \o RowsOfId(lines, n + 1, id)

\* the non-empty trimmed ids of the stream's data lines
IdsOfStream ==
    {IdOf(csv_text[1], csv_text[n]) : n \in 2..Len(csv_text)} \ {""}

\* C19: for a stream with an IMEI header, the keys of the result are the
\* non-empty trimmed ids of its data lines, each once, and the rows under a
\* key are the data lines with that trimmed id, each once and in arrival
\* order; lines with an empty id are nowhere, and there are no more keys
\* than distinct non-empty trimmed ids.
C19_EveryRowOnceUnderItsId ==
    (GrouperOver /\ HasImeiHeader) =>
        LET groups == GrouperResult.groups
        IN  /\ {groups[g].imei : g \in 1..Len(groups)} = IdsOfStream
            /\ \A g, h \in 1..Len(groups) :
                  groups[g].imei = groups[h].imei => g = h
            /\ Len(groups) <= Cardinality(IdsOfStream)
            /\ \A g \in 1..Len(groups) :
                  LET rows == RowsOfId(csv_text, 2, groups[g].imei)
                      registros == groups[g].registros
                  IN  /\ Len(registros) = Len(rows)
                      /\ \A r \in 1..Len(registros) :
                            /\ registros[r]["imei"] = PyStr(groups[g].imei)
                            /\ registros[r]["dados_brutos"] =
                                    PyDict(CleanedRow(csv_text[1], rows[r]))

\* two different data lines with the same trimmed id: one key, two rows in
\* arrival order
C19_Witness ==
    /\ g_pc = "returned"
    /\ Len(csv_text) = 3
    /\ Len(g_groups) = 1
    /\ Len(g_groups[1].registros) = 2
    /\ g_groups[1].registros[1] # g_groups[1].registros[2]
    /\ csv_text[2] # csv_text[3]

RECURSIVE DropLeadingEmpty(_)
\* the stream without the empty lines that precede its first non-empty line
DropLeadingEmpty(lines) ==
    IF Len(lines) = 0 THEN lines
    ELSE IF lines[1] = <<>> THEN DropLeadingEmpty(Tail(lines))
    ELSE lines

\* C20: the header is the first non-empty line: a stream gives the same
\* result as the stream without its leading empty lines, and the grouper
\* fails for want of a header only when the stream has no non-empty line.
C20_HeaderIsFirstNonEmptyLine ==
    GrouperOver =>
        /\ GrouperResult = process_csv_stream(DropLeadingEmpty(csv_text))
        /\ g_err \in {"no_headers", "empty"} => DropLeadingEmpty(csv_text) = <<>>

-----------------------------------------------------------------------------
(* C21 - C22: the Column Mapper *)

\* the column has the name of an earlier or later column once normalized
CollidingColumn(header, i) ==
    \E j \in 1..Len(header) : j # i /\ MappedKey(header[j]) = MappedKey(header[i])

\* the stripped text of column i of a data line, '' past the end of the line
ColumnText(row, i) == IF i <= Len(row) THEN Strip(row[i]) ELSE ""

\* C21: when two header names are equal after normalization, every retained
\* row keeps one raw column per header column, and the value of each of the
\* two columns is among the row's raw values.
C21_DuplicateHeadersKept ==
    (g_pc = "returned" /\ HasImeiHeader) =>
        \A g \in 1..Len(g_groups) :
            LET rows == RowsOfId(csv_text, 2, g_groups[g].imei)
                registros == g_groups[g].registros
            IN  \A r \in 1..Len(registros) :
                    LET raw == registros[r]["dados_brutos"].d
                    IN  /\ Cardinality(DOMAIN raw) >= Len(csv_text[1])
                        /\ \A i \in 1..Len(csv_text[1]) :
                              CollidingColumn(csv_text[1], i) =>
                                \E k \in DOMAIN raw :
                                    raw[k] = PyStr(ColumnText(rows[r], i))

\* the canonical name the Column Mapper is said to give to a header: the
\* target of the alias table for the trimmed, upper-cased header, else the
\* trimmed, lower-cased header
ClaimedName(h) ==
    IF Upper(Strip(h)) \in DOMAIN column_mapping
    THEN column_mapping[Upper(Strip(h))]
    ELSE Lower(Strip(h))

\* C22: the Column Mapper gives every header its one canonical name (the
\* alias target, else the trimmed lower-cased header), and every retained
\* row keeps each column's value in its raw fields under that name.
C22_MapperTotalAndValueKept ==
    (g_pc = "returned" /\ HasImeiHeader) =>
        /\ \A i \in 1..Len(csv_text[1]) :
              MappedKey(csv_text[1][i]) = ClaimedName(csv_text[1][i])
        /\ \A g \in 1..Len(g_groups) :
              LET rows == RowsOfId(csv_text, 2, g_groups[g].imei)
                  registros == g_groups[g].registros
              IN  \A r \in 1..Len(registros) :
                      LET raw == registros[r]["dados_brutos"].d
                      IN  \A i \in 1..Len(csv_text[1]) :
                            LET name == ClaimedName(csv_text[1][i])
                            IN  /\ name \in DOMAIN raw
                                /\ raw[name] = PyStr(ColumnText(rows[r], i))

-----------------------------------------------------------------------------
(* C23 - C25: the Budgeted Encoder *)

\* the summary of data with at most 5 IMEIs per model
FullModelos(data) ==
    LimitImeis(CountModels(ImeisOf(data), 1, Len(ImeisOf(data)), <<>>))

\* the full compact serialization of the summary of data
FullText(data) == json_dumps(limited_data(data, FullModelos(data)), FALSE)

\* the call has returned for a summary that serializes
ReturnedForSummary == e_pc = "returned" /\ SummaryError(e_data) = ""

\* C23: for a summary whose full compact serialization is at most the byte
\* budget, the encoder returns that serialization, lists of IMEIs included,
\* in a symbol of the highest error correction level.
C23_WithinBudgetEncodedInFull ==
    (ReturnedForSummary /\ Utf8Len(FullText(e_data)) <= ByteBudget) =>
        /\ e_symbol.text = FullText(e_data)
        /\ e_symbol.error_correction = "H"

\* the number of items of data counted under a model
RecordsOfModel(data, modelo) ==
    Cardinality({i \in 1..Len(ImeisOf(data)) :
        GetDefault(ImeisOf(data)[i].d, "modelo", PyStr("Desconhecido")) = modelo})

\* C24: when the full serialization exceeds the byte budget, the text
\* returned is the summary without any list of IMEIs, with every model and
\* its count, with the notice, and it is at most the budget long.
C24_OverBudgetKeepsCountsOnly ==
    (ReturnedForSummary /\ Utf8Len(FullText(e_data)) > ByteBudget) =>
        /\ \A i \in 1..Len(e_modelos) :
              /\ "imeis" \notin DOMAIN e_modelos[i].bucket
              /\ e_modelos[i].bucket["quantidade"].n =
                        RecordsOfModel(e_data, e_modelos[i].modelo)
        /\ Len(e_modelos) = Len(FullModelos(e_data))
        /\ e_symbol.text = json_dumps(limited_data(e_data, e_modelos), TRUE)
        /\ Utf8Len(e_symbol.text) <= ByteBudget

\* the symbol can hold its text
SymbolHolds(symbol) ==
    IF symbol.version = 40
    THEN QrBitsOf(symbol.text) <= QrDataBits(symbol.error_correction)
    ELSE /\ symbol.error_correction = "L"
         /\ symbol.version \in 1..Len(QrBytesAtL)
         /\ Utf8Len(symbol.text) <= QrBytesAtL[symbol.version]

\* C25: the encoder never ends with an exception; whatever the argument,
\* what it returns is a symbol that holds a non-empty text, and after an
\* exception (in the serialization, or in the making of the symbol because
\* the text is too long) that text is the error marker followed by at most
\* 100 characters of the exception.
C25_EncoderNeverRaises ==
    /\ e_pc \in {"idle", "start", "serialized", "checked", "except", "returned"}
    /\ e_pc = "returned" =>
          /\ e_symbol.text # ""
          /\ SymbolHolds(e_symbol)
          /\ e_exc # "" =>
                /\ e_symbol.text = "Erro: " \o Prefix(e_exc, 100)
                /\ Len(e_symbol.text) <= 106

\* the 500 records of 500 models: the text without the lists of IMEIs is
\* still above the budget, the symbol cannot be made, and the error symbol
\* is returned
C25_Witness ==
    /\ e_pc = "returned"
    /\ e_data = Summary(500, 500)
    /\ Utf8Len(e_json) > ByteBudget
    /\ e_symbol.error_correction = "L"
    /\ e_exc # ""

-----------------------------------------------------------------------------
(* C26: the requests and the lookup client *)

\* the other request
Other(r) == CHOOSE o \in Requests : o # r

\* the request has arrived and has not ended
Running(r) == reqs[r].pc \notin {"idle", "done"}

\* the state of the lookup client: its flag and its session
SharedClient == <<route_autenticado, session>>

\* C26: no step of a request changes what another running request reads or
\* writes: neither the other's own results, nor the flag and the session
\* of the lookup client that the other uses.
C26_NoStateSharedBetweenRequests ==
    [][\A r \in Requests :
          (reqs'[r] # reqs[r] /\ Running(Other(r))) =>
              /\ reqs'[Other(r)] = reqs[Other(r)]
              /\ SharedClient' = SharedClient]_vars

-----------------------------------------------------------------------------
(* C27: the QR code of a cluster *)

\* C27: when the QR code endpoint answers with a QR code, every id that the
\* cluster query returned for the cluster is in the qr_data that is
\* encoded, with its detail fields as the query gave them.
C27_QrCodeCarriesEveryImei ==
    qr_out.status = "200" =>
        \A i \in 1..Len(q_result["imeis"].l) :
            LET imei == q_result["imeis"].l[i]
                detalhes == qr_out.qr_data["detalhes_imeis"].d
            IN  /\ \E j \in 1..Len(qr_out.qr_data["imeis"].l) :
                      qr_out.qr_data["imeis"].l[j] = imei
                /\ imei.s \in DOMAIN detalhes
                /\ detalhes[imei.s] = q_result["detalhes_imeis"].d[imei.s]

-----------------------------------------------------------------------------
\* C28: in one CSV ingestion pass every unique id is looked up exactly once:
\* processar_csv has made one lookup for each group it has passed, no two
\* groups have the same id, and no record that the pipeline hands to
\* create_cluster makes create_cluster call the lookup service again.
C28_EachIdLookedUpOnce ==
    caller = "csv" =>
        /\ Len(mundos) = gi - 1
        /\ Len(respostas) = Len(mundos)
        /\ \A g, h \in 1..Len(imei_groups) :
              g # h => imei_groups[g].imei # imei_groups[h].imei
        /\ \A i \in 1..Len(imeis) : ~NeedsLookup(imeis[i])
        /\ cs_autenticado = FALSE

\* a pass over two ids has ended with its cluster created, one lookup
\* having answered and the other failed
C28_Witness ==
    /\ caller = "csv"
    /\ pc = "done"
    /\ outcome = "200"
    /\ Len(imei_groups) = 2
    /\ Len(mundos) = 2
    /\ Len(imeis_to_insert) = 2
    /\ \E g, h \in 1..2 : LookupOk(g) /\ ~LookupOk(h)

-----------------------------------------------------------------------------
\* the INSERT of a record of the batch has failed and create_cluster is over
InsertFailed == PopulationOver /\ Len(insert_errors) > 0

\* the rows the transaction had written when the INSERT of record ii raised
WrittenBefore == [i \in 1..(ii - 1) |-> RecordToInsert(i)]

\* C29: when an INSERT fails during the population step of create_cluster,
\* no record of the batch is in the cluster's table, the error reaches the
\* caller (the route answers with it), and the master row and the table of
\* the cluster are still in the store, the row with total_imeis 0.
C29_FailedInsertPersistsNothing ==
    InsertFailed =>
        /\ StoredRows = <<>>
        /\ tx = <<>>
        /\ outcome = (IF caller = "csv" THEN "500: " ELSE "400: ")
                        \o InsertError(WrittenBefore, RecordToInsert(ii))
        /\ cluster_id \in DOMAIN clusters
        /\ clusters[cluster_id].total_imeis = 0
        /\ TableName(cluster_id) \in DOMAIN tables

\* the second INSERT of a batch has failed after the first had been executed
C29_Witness ==
    /\ InsertFailed
    /\ ii = 2
    /\ Len(imeis_to_insert) = 2
    /\ outcome # ""

-----------------------------------------------------------------------------
\* the steps of create_cluster between the commit of the master row and its
\* return
CreateRunning == pc \in {"cc_table", "cc_prepare", "cc_insert", "cc_count"}

\* the ids of the batch create_cluster has prepared
BatchIds == {imeis_to_insert[i]["imei"] : i \in 1..Len(imeis_to_insert)}

\* C30: a query of a cluster that interleaves with the create_cluster of
\* that cluster never returns a non-empty strict subset of the batch: it
\* returns no record or every record of the batch, and the total_imeis it
\* reports is the number of ids it returns.
C30_QuerySeesNoneOrAll ==
    (q_call.ret = "dict" /\ q_call.cluster_id = cluster_id) =>
        LET ids == q_result["imeis"].l
        IN  /\ \/ ids = <<>>
               \/ /\ pi > Len(imeis)
                  /\ Len(ids) = Len(imeis_to_insert)
                  /\ {ids[i] : i \in 1..Len(ids)} = BatchIds
            /\ q_result["total_imeis"] = PyInt(Len(ids))

\* a query that read the master row while two rows were committed and the
\* count was not has returned, create_cluster still running
C30_Witness ==
    /\ q_call.ret = "dict"
    /\ q_call.cluster_id = cluster_id
    /\ q_call.during = "cc_count"
    /\ CreateRunning
    /\ Len(StoredRows) = 2
    /\ q_result["imeis"] = PyList(<<>>)
    /\ q_result["total_imeis"] = PyInt(0)

====
